---------------------------- MODULE Spec2Model ----------------------------
(***************************************************************************)
(* A model of the portscope scan engine (src/src/scanner/mod.rs), its      *)
(* result cache (src/src/scanner/scan_cache.rs) and its adaptive learning  *)
(* store (src/src/adaptive.rs).                                            *)
(*                                                                         *)
(* Conventions                                                             *)
(*   - Option<T> is a sequence: <<>> is None, <<x>> is Some(x).            *)
(*   - HashMap<K, V> is a function whose DOMAIN is the set of keys held.   *)
(*   - An IPv4 address is the tuple of its four octets.                    *)
(*   - f64 quantities that the program only ever produces as whole         *)
(*     multiples of small fractions are kept as integers; the unit is      *)
(*     stated where the quantity is declared.                              *)
(***************************************************************************)
EXTENDS Integers, Sequences, FiniteSets, TLC

VARIABLES
    cache,      \* ScanCache.cache: host key -> CachedHostResult
    now,        \* SystemTime::now() in seconds since the epoch
    cacheOps,   \* number of calls made by the cache's direct callers
    lastCall,   \* the last ScanCache call and what it returned
    file,       \* the adaptive store file: Option of the store saved last
    scanner,    \* the Scanner: Option of its configuration and its store
    scan,       \* the call of Scanner::scan in progress, or its result
    hostPermits,\* permits left in host_semaphore
    hostTasks,  \* the host tasks of the scan: target -> task state
    portTasks,  \* the port tasks: <<target, port>> -> task state
    scans,      \* number of Scanner::scan calls started
    learned,    \* history: the learn_from_scan calls completed, per target
    probe,      \* one port task's probe step (scanner/tcp.rs), in detail
    learner,    \* an AdaptiveLearning driven by direct callers, and its file
    call        \* the last call of a function studied alone, and its result

cacheVars == <<cache, now, cacheOps, lastCall>>
engineVars ==
    <<file, scanner, scan, hostPermits, hostTasks, portTasks, scans, learned>>

probeVars == <<probe>>
learnVars == <<learner>>
callVars == <<call>>

vars == <<cache, now, cacheOps, lastCall, file, scanner, scan, hostPermits,
          hostTasks, portTasks, scans, learned, probe, learner, call>>

---------------------------------------------------------------------------
(* Bounds of the model.                                                    *)

\* ScanCache::new(ttl_seconds, max_entries): the cache under study is built
\* with a short TTL and a small capacity (GLOBAL_SCAN_CACHE is built with
\* 3600 and 1000; no line of scan_cache.rs depends on the two values).
CacheTtlSeconds == 2
MaxEntries == 2
\* The clock stops advancing at MaxNow.
MaxNow == 4
\* Calls made on the cache by its direct callers.
MaxCacheOps == 3
\* Calls of Scanner::scan.
MaxScans == 2

---------------------------------------------------------------------------
(* Values.                                                                 *)

None == <<>>
Some(x) == <<x>>

Min(a, b) == IF a <= b THEN a ELSE b
Max(a, b) == IF a >= b THEN a ELSE b

\* Hosts the model scans and caches.
Localhost == <<127, 0, 0, 1>>
LanHost == <<192, 168, 1, 10>>
PublicHost == <<8, 8, 8, 8>>
Hosts == {Localhost, LanHost, PublicHost}

Ports == {22, 80}

PortStatus == {"Open", "Closed", "Filtered", "Error"}
ScanType == {"Syn", "Connect", "Udp", "Fin", "Xmas", "Null"}

\* Option<ServiceInfo> values the model uses.
Services == {None, Some("ssh")}

\* Inputs of the cache's direct callers: (status, service) pairs as the scan
\* engine produces them (a service only for an open port), and scan types.
CallResults == {[status |-> "Open", service |-> Some("ssh")],
                [status |-> "Closed", service |-> None]}
CallScanTypes == {"Syn", "Connect"}
\* The calls they make: every port, result and scan type on one host, and one
\* port and result on the others, which are there to fill the cache.
CacheCalls ==
    {c \in [target : Hosts, port : Ports, result : CallResults,
            scan_type : CallScanTypes] :
        \/ c.target = Localhost
        \/ (c.port = 22 /\ c.result.status = "Closed")}

---------------------------------------------------------------------------
(* ScanCache (src/src/scanner/scan_cache.rs).                              *)

\* IpAddr::to_string for an IPv4 address: the dotted form.
DottedForm(ip) ==
    ToString(ip[1]) \o "." \o ToString(ip[2]) \o "." \o ToString(ip[3])
        \o "." \o ToString(ip[4])

\* The dotted forms of the hosts of the model, computed once.
DottedForms == [h \in Hosts |-> DottedForm(h)]

\* host_key = target.to_string().
HostKey(ip) == DottedForms[ip]

\* ScanCache::new: an empty map.
EmptyCache == [k \in {} |-> None]

\* A function without key k.
Remove(f, k) == [x \in DOMAIN f \ {k} |-> f[x]]

\* f with key k bound to v (HashMap::insert).
Insert(f, k, v) == [x \in DOMAIN f \cup {k} |-> IF x = k THEN v ELSE f[x]]

\* ScanCache::is_result_valid at clock time t.
IsResultValidMutLe(result, t) == t - result.timestamp <= CacheTtlSeconds
IsResultValid(result, t) == t - result.timestamp < CacheTtlSeconds

\* ScanCache::get_cached_result at clock time t.
GetCachedResult(c, target, port, scan_type, t) ==
    LET host_key == HostKey(target) IN
    IF host_key \in DOMAIN c /\ port \in DOMAIN c[host_key].ports
    THEN LET port_result == c[host_key].ports[port] IN
         IF IsResultValid(port_result, t) /\ port_result.scan_type = scan_type
         THEN Some([status |-> port_result.status,
                    service |-> port_result.service])
         ELSE None
    ELSE None

\* First phase of cleanup_old_entries: retain the hosts scanned recently.
RetainRecent(c, t) ==
    LET keep == {k \in DOMAIN c :
                    t - c[k].last_full_scan < CacheTtlSeconds * 2}
    IN [k \in keep |-> c[k]]

\* Second phase of cleanup_old_entries: the sets of keys the loop may remove.
\* The keys are sorted by last_full_scan and the first to_remove are removed;
\* the map's iteration order decides among hosts of equal age.
EvictionChoices(c) ==
    IF Cardinality(DOMAIN c) > MaxEntries
    THEN LET to_remove == Cardinality(DOMAIN c) - MaxEntries IN
         {R \in SUBSET DOMAIN c :
             /\ Cardinality(R) = to_remove
             /\ \A r \in R : \A k \in DOMAIN c \ R :
                    c[r].last_full_scan <= c[k].last_full_scan}
    ELSE {{}}

\* ScanCache::cleanup_old_entries: the caches it may leave.
CleanupOldEntriesMutNoEvict(c, t) == {RetainRecent(c, t)}
CleanupOldEntries(c, t) ==
    LET kept == RetainRecent(c, t) IN
    {[k \in DOMAIN kept \ R |-> kept[k]] : R \in EvictionChoices(kept)}

\* The map after the insertion of cache_result, before any cleanup.
\* One CachedPortResult is held per port of a host.
InsertPortResult(c, target, port, status, service, scan_type, t) ==
    LET host_key == HostKey(target)
        port_result == [status |-> status, service |-> service,
                        timestamp |-> t, scan_type |-> scan_type]
        host_result == IF host_key \in DOMAIN c
                       THEN c[host_key]
                       ELSE [target |-> target,
                             ports |-> [p \in {} |-> None],
                             last_full_scan |-> t]
    IN Insert(c, host_key,
              [host_result EXCEPT
                  !.ports = Insert(host_result.ports, port, port_result)])

\* ScanCache::cache_result at clock time t: the caches it may leave.
CacheResultOutcomes(c, target, port, status, service, scan_type, t) ==
    LET inserted ==
            InsertPortResult(c, target, port, status, service, scan_type, t)
    IN IF Cardinality(DOMAIN inserted) > MaxEntries
       THEN CleanupOldEntries(inserted, t)
       ELSE {inserted}

\* ScanCache::clear_target.
ClearTargetOf(c, target) ==
    IF HostKey(target) \in DOMAIN c THEN Remove(c, HostKey(target)) ELSE c

---------------------------------------------------------------------------
(* The cache driven by its direct callers.                                 *)

NoCall == [op |-> "none"]

CacheInit ==
    /\ cache = EmptyCache
    /\ now = 0
    /\ cacheOps = 0
    /\ lastCall = NoCall

\* A caller runs cache_result(target, port, status, service, scan_type).
CallCacheResult(target, port, status, service, scan_type) ==
    /\ cacheOps < MaxCacheOps
    /\ \E c \in CacheResultOutcomes(cache, target, port, status, service,
                                    scan_type, now) :
          /\ cache' = c
          /\ lastCall' = [op |-> "cache_result", target |-> target,
                          port |-> port, scan_type |-> scan_type,
                          evicted |-> (DOMAIN cache \cup {HostKey(target)})
                                          \ DOMAIN c]
    /\ cacheOps' = cacheOps + 1
    /\ UNCHANGED <<now, engineVars>>
    /\ UNCHANGED <<probeVars, learnVars, callVars>>

\* A caller runs clear_target(target).
CallClearTarget(target) ==
    /\ cacheOps < MaxCacheOps
    /\ cache' = ClearTargetOf(cache, target)
    /\ lastCall' = [op |-> "clear_target", target |-> target]
    /\ cacheOps' = cacheOps + 1
    /\ UNCHANGED <<now, engineVars>>
    /\ UNCHANGED <<probeVars, learnVars, callVars>>

\* A caller runs clear_all().
CallClearAll ==
    /\ cacheOps < MaxCacheOps
    /\ cache' = EmptyCache
    /\ lastCall' = [op |-> "clear_all"]
    /\ cacheOps' = cacheOps + 1
    /\ UNCHANGED <<now, engineVars>>
    /\ UNCHANGED <<probeVars, learnVars, callVars>>

\* A second of wall-clock time passes.
Tick ==
    /\ now < MaxNow
    /\ now' = now + 1
    /\ UNCHANGED <<cache, cacheOps, lastCall, engineVars>>
    /\ UNCHANGED <<probeVars, learnVars, callVars>>

CacheNext ==
    \/ \E c \in CacheCalls :
          CallCacheResult(c.target, c.port, c.result.status,
                          c.result.service, c.scan_type)
    \/ \E h \in Hosts : CallClearTarget(h)
    \/ CallClearAll
    \/ Tick

---------------------------------------------------------------------------
(* AdaptiveLearning (src/src/adaptive.rs).                                 *)
(*                                                                         *)
(* avg_response_time is kept in thousandths of a millisecond and           *)
(* timeout_rate and scan_performance in thousandths; the store's           *)
(* port_intelligence map and the timestamps of its records are not part    *)
(* of the state modelled here.                                             *)

\* classify_network for an IPv4 address.
IsCloudProviderIp(octets) ==
    \/ (octets[1] = 3 /\ octets[2] <= 7)
    \/ octets[1] = 13
    \/ octets[1] = 15
    \/ (octets[1] = 34 /\ octets[2] >= 64 /\ octets[2] <= 127)
    \/ octets[1] = 20
    \/ octets[1] = 40

ClassifyNetwork(ip) ==
    IF ip[1] = 127 THEN "LocalHost"
    ELSE IF \/ ip[1] = 10
            \/ (ip[1] = 172 /\ ip[2] >= 16 /\ ip[2] <= 31)
            \/ (ip[1] = 192 /\ ip[2] = 168)
         THEN "PrivateLAN"
    ELSE IF IsCloudProviderIp(ip) THEN "CloudProvider"
    ELSE "PublicInternet"

\* AdaptiveLearning::initialize_port_intelligence: the baseline of the common
\* ports. success_rate and service_confidence are in thousandths,
\* avg_response_time in thousandths of a millisecond.
BaselineRates ==
    (21 :> 100) @@ (22 :> 800) @@ (23 :> 50) @@ (25 :> 300) @@ (53 :> 900)
        @@ (80 :> 900) @@ (110 :> 100) @@ (143 :> 200) @@ (443 :> 900)
        @@ (993 :> 100) @@ (995 :> 50)

InitializePortIntelligence ==
    [p \in DOMAIN BaselineRates |->
        [port |-> p, found_count |-> 1, success_rate |-> BaselineRates[p],
         avg_response_time |-> 100000, service_confidence |-> 900]]

\* AdaptiveLearning::create_default.
DefaultStore ==
    [network_profiles |-> [k \in {} |-> None],
     port_intelligence |-> InitializePortIntelligence,
     host_intelligence |-> [k \in {} |-> None],
     global_stats |-> [total_scans |-> 0, total_ports_found |-> 0]]

\* AdaptiveLearning::new: the store of the file when there is one.
AdaptiveNew(f) == IF f # None THEN f[1] ELSE DefaultStore

\* OptimalScanParams::default_for_network.
DefaultForNetwork(network_type) ==
    CASE network_type = "LocalHost" ->
            [timeout |-> 200, rate_limit |-> 10, parallelism |-> 100,
             network_type |-> network_type]
      [] network_type = "PrivateLAN" ->
            [timeout |-> 500, rate_limit |-> 50, parallelism |-> 50,
             network_type |-> network_type]
      [] network_type = "PublicInternet" ->
            [timeout |-> 2000, rate_limit |-> 200, parallelism |-> 20,
             network_type |-> network_type]
      [] network_type = "CloudProvider" ->
            [timeout |-> 1000, rate_limit |-> 100, parallelism |-> 30,
             network_type |-> network_type]

\* AdaptiveLearning::get_optimal_params (without suggested_ports).
GetOptimalParamsMutDefaults(store, target) ==
    DefaultForNetwork(ClassifyNetwork(target))
GetOptimalParams(store, target) ==
    LET network_type == ClassifyNetwork(target) IN
    IF network_type \in DOMAIN store.network_profiles
    THEN LET profile == store.network_profiles[network_type] IN
         [timeout |-> (profile.avg_response_time * 3) \div 1000,
          rate_limit |-> profile.optimal_rate_limit,
          parallelism |-> profile.optimal_parallelism,
          network_type |-> network_type]
    ELSE DefaultForNetwork(network_type)

\* The adjustment of optimal_parallelism in update_network_profile:
\* (p as f64 * 1.1).min(100.0) as u16, (p as f64 * 0.9).max(1.0) as u16.
AdjustParallelism(p, scan_performance) ==
    IF scan_performance > 800 THEN Min((p * 11) \div 10, 100)
    ELSE IF scan_performance < 500 THEN Max((p * 9) \div 10, 1)
    ELSE p

\* The adjustment of optimal_rate_limit in update_network_profile:
\* (r as f64 * 0.9).max(10.0) as u64, (r as f64 * 1.2) as u64.
AdjustRateLimitMutNoFloor(r, scan_performance) ==
    IF scan_performance > 800 THEN (r * 9) \div 10
    ELSE IF scan_performance < 500 THEN (r * 12) \div 10
    ELSE r
AdjustRateLimit(r, scan_performance) ==
    IF scan_performance > 800 THEN Max((r * 9) \div 10, 10)
    ELSE IF scan_performance < 500 THEN (r * 12) \div 10
    ELSE r

\* The moving average of update_network_profile, alpha = 0.1.
Ewma(old, sample) == (old * 9 + sample) \div 10

\* AdaptiveLearning::update_network_profile.
UpdateNetworkProfile(store, data) ==
    LET network_key == data.network_type
        profile == IF network_key \in DOMAIN store.network_profiles
                   THEN store.network_profiles[network_key]
                   ELSE [network_type |-> data.network_type,
                         avg_response_time |-> data.avg_response_time,
                         timeout_rate |-> data.timeout_rate,
                         optimal_parallelism |-> data.parallelism_used,
                         optimal_rate_limit |-> data.rate_limit_used,
                         scan_count |-> 0]
        updated ==
            [profile EXCEPT
                !.avg_response_time = Ewma(@, data.avg_response_time),
                !.timeout_rate = Ewma(@, data.timeout_rate),
                !.optimal_parallelism =
                    AdjustParallelism(@, data.scan_performance),
                !.optimal_rate_limit =
                    AdjustRateLimit(@, data.scan_performance),
                !.scan_count = @ + 1]
    IN [store EXCEPT
           !.network_profiles = Insert(@, network_key, updated)]

\* update_port_intelligence for one port result: the entry of its port is
\* created if need be and, for an open port, found_count is incremented,
\* success_rate moves by alpha = 1 / (found_count + 1) towards 1 and
\* avg_response_time by 0.2 towards the response time (both rounded down to
\* the unit).
UpdatePortEntry(intel, r) ==
    LET entry == IF r.port \in DOMAIN intel THEN intel[r.port]
                 ELSE [port |-> r.port, found_count |-> 0,
                       success_rate |-> 500, avg_response_time |-> 1000000,
                       service_confidence |-> 500]
        found == entry.found_count + 1
        updated ==
            IF r.is_open
            THEN [entry EXCEPT
                     !.found_count = found,
                     !.success_rate = (@ * found + 1000) \div (found + 1),
                     !.avg_response_time =
                         IF r.response_time # None
                         THEN (@ * 8 + r.response_time[1] * 2000) \div 10
                         ELSE @]
            ELSE entry
    IN Insert(intel, r.port, updated)

\* AdaptiveLearning::update_port_intelligence. The port results of a scan
\* have distinct ports, so the order of the loop does not matter.
RECURSIVE UpdatePortsIn(_, _)
UpdatePortsIn(intel, results) ==
    IF results = {} THEN intel
    ELSE LET r == CHOOSE x \in results : TRUE
         IN UpdatePortsIn(UpdatePortEntry(intel, r), results \ {r})

UpdatePortIntelligence(store, data) ==
    [store EXCEPT
        !.port_intelligence = UpdatePortsIn(@, data.port_results)]

\* Ports of data.port_results that satisfy a flag.
OpenPorts(data) == {r.port : r \in {x \in data.port_results : x.is_open}}
FilteredCount(data) ==
    Cardinality({x \in data.port_results : x.is_filtered})

\* AdaptiveLearning::update_host_intelligence. The record's network_profile
\* is built from the scan's data when the host is first seen and is not
\* touched afterwards.
UpdateHostIntelligence(store, data) ==
    LET host_key == HostKey(data.target)
        host_intel ==
            IF host_key \in DOMAIN store.host_intelligence
            THEN store.host_intelligence[host_key]
            ELSE [host |-> host_key,
                  network_profile |->
                      [network_type |-> data.network_type,
                       avg_response_time |-> data.avg_response_time,
                       timeout_rate |-> data.timeout_rate,
                       optimal_parallelism |-> data.parallelism_used,
                       optimal_rate_limit |-> data.rate_limit_used,
                       scan_count |-> 1],
                  open_ports |-> {},
                  firewall_detected |-> FALSE]
        updated ==
            [host_intel EXCEPT
                !.open_ports = OpenPorts(data),
                !.firewall_detected =
                    FilteredCount(data) * 10
                        > 7 * Cardinality(data.port_results)]
    IN [store EXCEPT
           !.host_intelligence = Insert(@, host_key, updated)]

\* AdaptiveLearning::update_global_stats (without most_common_ports).
UpdateGlobalStats(store, data) ==
    [store EXCEPT
        !.global_stats.total_scans = @ + 1,
        !.global_stats.total_ports_found = @ + Cardinality(OpenPorts(data))]

\* AdaptiveLearning::learn_from_scan: the store after the four updates; the
\* caller of this operator writes it to the file, as save() does.
LearnFromScan(store, data) ==
    UpdateGlobalStats(
        UpdateHostIntelligence(
            UpdatePortIntelligence(UpdateNetworkProfile(store, data), data),
            data),
        data)

---------------------------------------------------------------------------
(* The store file (serde_json) and an AdaptiveLearning driven by direct    *)
(* callers of learn_from_scan, get_optimal_params and new.                 *)

\* Port numbers that occur as keys of port_intelligence, and their decimal
\* forms: serde_json writes the u16 keys of a map as strings.
PortNumbers == DOMAIN BaselineRates \cup Ports \cup {8080}
PortStrings == [p \in PortNumbers |-> ToString(p)]
ParsePort(str) == CHOOSE p \in PortNumbers : PortStrings[p] = str

\* A HashMap as a JSON object: the set of its members <<key string, value>>.
EncodeMap(f, key(_)) == {<<key(k), f[k]>> : k \in DOMAIN f}
\* A JSON object as a HashMap.
DecodeMap(members, key(_)) ==
    [k \in {key(m[1]) : m \in members} |->
        (CHOOSE m \in members : key(m[1]) = k)[2]]

SameString(str) == str

\* serde_json::to_string_pretty(self): the JSON document of a store.
\* open_ports, a Vec, becomes an array.
EncodeStore(store) ==
    [network_profiles |-> EncodeMap(store.network_profiles, SameString),
     port_intelligence |->
        EncodeMap(store.port_intelligence, LAMBDA p : PortStrings[p]),
     host_intelligence |-> EncodeMap(store.host_intelligence, SameString),
     global_stats |-> store.global_stats]

\* serde_json::from_str of load_from_file: the store of a JSON document.
DecodeStoreMutNoPorts(json) ==
    [network_profiles |-> DecodeMap(json.network_profiles, SameString),
     port_intelligence |-> InitializePortIntelligence,
     host_intelligence |-> DecodeMap(json.host_intelligence, SameString),
     global_stats |-> json.global_stats]
DecodeStore(json) ==
    [network_profiles |-> DecodeMap(json.network_profiles, SameString),
     port_intelligence |-> DecodeMap(json.port_intelligence, ParsePort),
     host_intelligence |-> DecodeMap(json.host_intelligence, SameString),
     global_stats |-> json.global_stats]

\* Calls of learn_from_scan made on one store.
MaxLearns == 2

\* The ScanLearningData of the direct callers: a local and a public target,
\* one open port that answered in 35 ms and one filtered port without an
\* answer, an average response time of 35 ms, and every combination of a
\* scan performance above 0.8, between 0.5 and 0.8 and below 0.5 with a
\* parallelism below the documented range and a rate limit inside it, or a
\* parallelism above the range and a rate limit below it.
LearnTargets == {Localhost, PublicHost}
LearnPortResults ==
    {[port |-> 22, is_open |-> TRUE, is_filtered |-> FALSE,
      response_time |-> Some(35)],
     [port |-> 8080, is_open |-> FALSE, is_filtered |-> TRUE,
      response_time |-> None]}
LearnPerformances == {900, 600, 300}
LearnParallelisms == {5, 200}
LearnRateLimits == {5, 100}
LearnSettings ==
    {[target |-> t,
      network_type |-> ClassifyNetwork(t),
      port_results |-> LearnPortResults,
      avg_response_time |-> 35000,
      timeout_rate |-> 1000 - perf,
      parallelism_used |-> par,
      rate_limit_used |-> rl,
      scan_performance |-> perf] :
        t \in LearnTargets, perf \in LearnPerformances,
        par \in LearnParallelisms, rl \in LearnRateLimits}

LearnInputs ==
    {d \in LearnSettings : d.rate_limit_used = 5 <=> d.parallelism_used = 200}

\* Targets get_optimal_params is asked about.
RecommendTargets == {Localhost, LanHost, PublicHost, <<13, 1, 1, 1>>}

\* How a read of the store file may go when the file exists, and how
\* save() may go: fs::write may fail before it touched the file or after it
\* truncated it.
FileConditions == {"ok", "unreadable", "corrupt"}
SaveOutcomes == {"written", "untouched", "truncated"}

\* load_from_file: Err when the file cannot be read or parsed.
LoadFromFile(disk, condition) ==
    IF condition = "ok"
    THEN [ok |-> TRUE, learning |-> DecodeStore(disk[1])]
    ELSE [ok |-> FALSE]

\* AdaptiveLearning::new on the file as it is.
NewFromFileMutBlank(disk, condition) ==
    IF disk # None /\ LoadFromFile(disk, condition).ok
    THEN LoadFromFile(disk, condition).learning
    ELSE [DefaultStore EXCEPT !.port_intelligence = <<>>]
NewFromFile(disk, condition) ==
    IF disk # None
    THEN (IF LoadFromFile(disk, condition).ok
          THEN LoadFromFile(disk, condition).learning
          ELSE DefaultStore)
    ELSE DefaultStore

LearnInit ==
    learner = [store |-> DefaultStore, disk |-> None, condition |-> "ok",
               save_failed |-> FALSE, loaded |-> None,
               learns |-> 0, last |-> [op |-> "none"]]

\* learn_from_scan(data): the four updates, then save() writes the file;
\* its Result is dropped. A failed write leaves the file as it was or
\* truncated.
LearnCall(data, saved) ==
    /\ learner.learns < MaxLearns
    /\ LET store == LearnFromScan(learner.store, data)
       IN learner' = [store |-> store,
                      disk |-> IF saved = "untouched" THEN learner.disk
                               ELSE Some(EncodeStore(store)),
                      condition |-> CASE saved = "written" -> "ok"
                                      [] saved = "truncated" -> "corrupt"
                                      [] OTHER -> learner.condition,
                      save_failed |-> saved # "written",
                      loaded |-> None,
                      learns |-> learner.learns + 1,
                      last |-> [op |-> "learn", data |-> data,
                                before |-> learner.store]]
    /\ UNCHANGED <<cacheVars, engineVars, probeVars, callVars>>

\* get_optimal_params(target), which takes &self.
RecommendCall(target) ==
    /\ learner' = [learner EXCEPT
          !.last = [op |-> "recommend", target |-> target,
                    result |-> GetOptimalParams(learner.store, target),
                    before |-> learner.store]]
    /\ UNCHANGED <<cacheVars, engineVars, probeVars, callVars>>

\* AdaptiveLearning::new reads the file into a fresh store.
LoadCall ==
    /\ learner' = [learner EXCEPT
          !.loaded = Some(NewFromFile(learner.disk, learner.condition)),
          !.last = [op |-> "load"]]
    /\ UNCHANGED <<cacheVars, engineVars, probeVars, callVars>>

\* The file, when there is one, becomes unreadable or is overwritten with
\* something that is not a store.
FileDamaged(c) ==
    /\ learner.disk # None
    /\ learner.condition = "ok"
    /\ learner' = [learner EXCEPT !.condition = c, !.loaded = None,
                                  !.last = [op |-> "damage"]]
    /\ UNCHANGED <<cacheVars, engineVars, probeVars, callVars>>

LearnNext ==
    \/ \E d \in LearnInputs, saved \in SaveOutcomes : LearnCall(d, saved)
    \/ \E c \in FileConditions \ {"ok"} : FileDamaged(c)
    \/ \E t \in RecommendTargets : RecommendCall(t)
    \/ LoadCall

---------------------------------------------------------------------------
(* Scanner (src/src/scanner/mod.rs).                                       *)

\* The sentinels scan_single_host takes for "the user kept the default".
DefaultTimeout == 1000
DefaultRateLimit == 10
DefaultParallelHosts == 50

\* Arguments of Scanner::new(rate_limit, timeout, parallel_hosts) the model
\* constructs scanners with: the three sentinels; a rate limit below 10 ms
\* with one host at a time; no rate limit with 65536 parallel hosts.
Configs ==
    {[rate_limit |-> 10, timeout |-> 1000, parallel_hosts |-> 50],
     [rate_limit |-> 5, timeout |-> 100, parallel_hosts |-> 1],
     [rate_limit |-> 0, timeout |-> 3000, parallel_hosts |-> 65536]}

\* What parse_targets and parse_ports yield for the scans of the model.
TargetLists == {{Localhost}, {Localhost, LanHost}}
PortLists == {<<22, 80>>}
ScanHosts == UNION TargetLists
ScanTypes == {"Connect"}

\* What a probe primitive may observe: the status and the milliseconds the
\* probe took (scan_start.elapsed().as_millis()). In the network of the
\* model port 22 answers or refuses and port 80 refuses at once.
ProbeOutcomes(p) ==
    IF p = 22
    THEN {[status |-> "Open", elapsed |-> 20],
          [status |-> "Closed", elapsed |-> 0]}
    ELSE {[status |-> "Closed", elapsed |-> 0]}

\* What ServiceDetector::detect_service may return.
DetectOutcomes == {None, Some("ssh")}

\* scan_single_host without its "adaptive value > 0" tests.
EffectiveParamsMutNoPositiveTest(sc, optimal) ==
    [timeout |->
        IF sc.timeout # DefaultTimeout THEN sc.timeout ELSE optimal.timeout,
     rate_limit |->
        IF sc.rate_limit # DefaultRateLimit THEN sc.rate_limit
        ELSE optimal.rate_limit,
     parallelism |->
        IF sc.parallel_hosts # DefaultParallelHosts THEN sc.parallel_hosts
        ELSE optimal.parallelism]

\* The effective timeout, rate limit and parallelism of scan_single_host.
EffectiveParams(sc, optimal) ==
    [timeout |->
        IF sc.timeout # DefaultTimeout THEN sc.timeout
        ELSE IF optimal.timeout > 0 THEN optimal.timeout
        ELSE sc.timeout,
     rate_limit |->
        IF sc.rate_limit # DefaultRateLimit THEN sc.rate_limit
        ELSE IF optimal.rate_limit > 0 THEN optimal.rate_limit
        ELSE sc.rate_limit,
     parallelism |->
        IF sc.parallel_hosts # DefaultParallelHosts THEN sc.parallel_hosts
        ELSE IF optimal.parallelism > 0 THEN optimal.parallelism
        ELSE sc.parallel_hosts]

RECURSIVE SumResponseTimes(_)
SumResponseTimes(results) ==
    IF results = <<>> THEN 0
    ELSE (IF Head(results).response_time # None
          THEN Head(results).response_time[1] ELSE 0)
         + SumResponseTimes(Tail(results))

Range(seq) == {seq[i] : i \in DOMAIN seq}

\* The ScanLearningData scan_single_host builds from its port results.
LearningData(target, port_results, eff) ==
    LET response_count ==
            Cardinality({i \in DOMAIN port_results :
                            port_results[i].response_time # None})
        timeout_count ==
            Cardinality({i \in DOMAIN port_results :
                            port_results[i].response_time = None})
        timeout_rate == (timeout_count * 1000) \div Len(port_results)
    IN [target |-> target,
        network_type |-> ClassifyNetwork(target),
        port_results |->
            {[port |-> r.port, is_open |-> r.status = "Open",
              is_filtered |-> r.status = "Filtered",
              response_time |-> r.response_time] : r \in Range(port_results)},
        avg_response_time |->
            IF response_count > 0
            THEN (SumResponseTimes(port_results) * 1000) \div response_count
            ELSE eff.timeout * 1000,
        timeout_rate |-> timeout_rate,
        parallelism_used |-> eff.parallelism % 65536,
        rate_limit_used |-> eff.rate_limit,
        scan_performance |-> 1000 - timeout_rate]

IdleHost == [pc |-> "none", store |-> DefaultStore,
             eff |-> [timeout |-> 0, rate_limit |-> 0, parallelism |-> 0],
             permits |-> 0, idx |-> 0, results |-> <<>>]
IdlePort == [pc |-> "none", result |-> None]
IdleScan == [pc |-> "idle"]

EngineInit ==
    /\ file = None
    /\ scanner = None
    /\ scan = IdleScan
    /\ hostPermits = 0
    /\ hostTasks = [h \in ScanHosts |-> IdleHost]
    /\ portTasks = [hp \in ScanHosts \X Ports |-> IdlePort]
    /\ scans = 0
    /\ learned = [h \in ScanHosts |-> 0]

\* Scanner::new(rate_limit, timeout, parallel_hosts): AdaptiveLearning::new
\* reads the store file.
NewScanner(cfg) ==
    /\ scan.pc # "running"
    /\ scans < MaxScans
    /\ scanner' = Some([rate_limit |-> cfg.rate_limit,
                        timeout |-> cfg.timeout,
                        parallel_hosts |-> cfg.parallel_hosts,
                        adaptive_learning |-> AdaptiveNew(file)])
    /\ scan' = IdleScan
    /\ UNCHANGED <<file, hostPermits, hostTasks, portTasks, scans, learned, cacheVars>>
    /\ UNCHANGED <<probeVars, learnVars, callVars>>

\* Scanner::scan up to join_all: the host semaphore is created and one task
\* is spawned per target, each with a clone of the scanner's store.
ScanStart(targets, port_list, scan_type) ==
    /\ scanner # None
    /\ scan.pc # "running"
    /\ scans < MaxScans
    /\ scans' = scans + 1
    /\ scan' = [pc |-> "running", targets |-> targets,
                port_list |-> port_list, scan_type |-> scan_type]
    /\ hostPermits' = scanner[1].parallel_hosts
    /\ hostTasks' = [h \in ScanHosts |->
                  IF h \in targets
                  THEN [IdleHost EXCEPT
                           !.pc = "spawned",
                           !.store = scanner[1].adaptive_learning]
                  ELSE IdleHost]
    /\ UNCHANGED <<file, scanner, portTasks, learned, cacheVars>>
    /\ UNCHANGED <<probeVars, learnVars, callVars>>

\* A host task acquires a permit of host_semaphore and runs scan_single_host
\* up to join_all: the effective parameters are derived, the port semaphore
\* is created and one task is spawned per port.
HostAcquireGuardMutNone(h) == hostTasks[h].pc = "spawned"
HostAcquireGuard(h) == hostTasks[h].pc = "spawned" /\ hostPermits > 0

HostAcquire(h) ==
    /\ scan.pc = "running"
    /\ HostAcquireGuard(h)
    /\ hostPermits' = hostPermits - 1
    /\ LET eff == EffectiveParams(scanner[1],
                                  GetOptimalParams(hostTasks[h].store, h))
       IN hostTasks' = [hostTasks EXCEPT ![h].pc = "scanning",
                               ![h].eff = eff,
                               ![h].permits = eff.parallelism]
    /\ portTasks' = [hp \in DOMAIN portTasks |->
                  IF hp[1] = h /\ hp[2] \in Range(scan.port_list)
                  THEN [pc |-> "waiting", result |-> None]
                  ELSE portTasks[hp]]
    /\ UNCHANGED <<file, scanner, scan, scans, learned, cacheVars>>
    /\ UNCHANGED <<probeVars, learnVars, callVars>>

\* The PortResult a port task returns on a cache hit: the cached status
\* and service with a response time of 0.0.
CachedPortResult(port, cached) ==
    [port |-> port,
     status |-> cached.status,
     is_filtered |-> cached.status = "Filtered",
     response_time |-> Some(0),
     service_detected |-> cached.service]

\* A port task acquires a permit of the port semaphore and looks the port up
\* in the cache: on a hit it returns the cached result at once (and its
\* permit with it), on a miss it starts the probe.
PortAcquireGuardMutNone(h, p) == portTasks[<<h, p>>].pc = "waiting"
PortAcquireGuard(h, p) == portTasks[<<h, p>>].pc = "waiting" /\ hostTasks[h].permits > 0

PortAcquire(h, p) ==
    /\ PortAcquireGuard(h, p)
    /\ LET cached == GetCachedResult(cache, h, p, scan.scan_type, now) IN
       IF cached # None
       THEN /\ portTasks' = [portTasks EXCEPT ![<<h, p>>] =
                          [pc |-> "done",
                           result |-> Some(CachedPortResult(p, cached[1]))]]
            /\ UNCHANGED hostTasks
       ELSE /\ portTasks' = [portTasks EXCEPT ![<<h, p>>].pc = "probing"]
            /\ hostTasks' = [hostTasks EXCEPT ![h].permits = @ - 1]
    /\ UNCHANGED <<file, scanner, scan, hostPermits, scans, learned,
                   cacheVars>>
    /\ UNCHANGED <<probeVars, learnVars, callVars>>

\* `if rate_limit > 0`: the port tasks of host h sleep after their probe.
SleepsAfterProbeMutNever(h) == FALSE
SleepsAfterProbe(h) == hostTasks[h].eff.rate_limit > 0

\* The probe primitive of a port task returns; the task then sleeps for the
\* rate limit if there is one, else it returns.
ProbeComplete(h, p, outcome) ==
    /\ portTasks[<<h, p>>].pc = "probing"
    /\ LET result == [port |-> p,
                      status |-> outcome.status,
                      is_filtered |-> outcome.status = "Filtered",
                      response_time |-> Some(outcome.elapsed),
                      service_detected |-> None]
       IN IF SleepsAfterProbe(h)
          THEN /\ portTasks' = [portTasks EXCEPT ![<<h, p>>] =
                             [pc |-> "sleeping", result |-> Some(result)]]
               /\ UNCHANGED hostTasks
          ELSE /\ portTasks' = [portTasks EXCEPT ![<<h, p>>] =
                             [pc |-> "done", result |-> Some(result)]]
               /\ hostTasks' = [hostTasks EXCEPT ![h].permits = @ + 1]
    /\ UNCHANGED <<file, scanner, scan, hostPermits, scans, learned,
                   cacheVars>>
    /\ UNCHANGED <<probeVars, learnVars, callVars>>

\* The rate-limit sleep of a port task ends and the task returns its result.
PortWake(h, p) ==
    /\ portTasks[<<h, p>>].pc = "sleeping"
    /\ portTasks' = [portTasks EXCEPT ![<<h, p>>].pc = "done"]
    /\ hostTasks' = [hostTasks EXCEPT ![h].permits = @ + 1]
    /\ UNCHANGED <<file, scanner, scan, hostPermits, scans, learned,
                   cacheVars>>
    /\ UNCHANGED <<probeVars, learnVars, callVars>>

\* A port task panics in its probe: its JoinHandle yields a JoinError.
PortAbort(h, p) ==
    /\ portTasks[<<h, p>>].pc = "probing"
    /\ portTasks' = [portTasks EXCEPT ![<<h, p>>] = [pc |-> "failed", result |-> None]]
    /\ hostTasks' = [hostTasks EXCEPT ![h].permits = @ + 1]
    /\ UNCHANGED <<file, scanner, scan, hostPermits, scans, learned,
                   cacheVars>>
    /\ UNCHANGED <<probeVars, learnVars, callVars>>

\* The port tasks of a host, and whether they have all ended.
PortTasksOf(h) == {<<h, scan.port_list[i]>> : i \in DOMAIN scan.port_list}
AllPortTasksEnded(h) ==
    \A hp \in PortTasksOf(h) : portTasks[hp].pc \in {"done", "failed"}

\* join_all(tasks) of scan_single_host returns: with a JoinError among the
\* results the host scan returns the error, else it goes on with the port
\* results in the order of the port list.
HostJoin(h) ==
    /\ hostTasks[h].pc = "scanning"
    /\ AllPortTasksEnded(h)
    /\ IF \E hp \in PortTasksOf(h) : portTasks[hp].pc = "failed"
       THEN /\ hostTasks' = [hostTasks EXCEPT ![h] =
                               [IdleHost EXCEPT !.pc = "error"]]
            /\ hostPermits' = hostPermits + 1
       ELSE /\ hostTasks' = [hostTasks EXCEPT
                ![h].pc = "joined",
                ![h].idx = 1,
                ![h].results =
                    [i \in DOMAIN scan.port_list |->
                        portTasks[<<h, scan.port_list[i]>>].result[1]]]
            /\ UNCHANGED hostPermits
    /\ portTasks' = [hp \in DOMAIN portTasks |->
                       IF hp[1] = h THEN IdlePort ELSE portTasks[hp]]
    /\ UNCHANGED <<file, scanner, scan, scans, learned, cacheVars>>
    /\ UNCHANGED <<probeVars, learnVars, callVars>>

\* One round of the loop over the port results: service detection for an
\* open port without a service, then cache_result.
HostDetectAndCache(h, detected) ==
    /\ hostTasks[h].pc = "joined"
    /\ hostTasks[h].idx <= Len(hostTasks[h].results)
    /\ LET r == hostTasks[h].results[hostTasks[h].idx]
           detect == r.status = "Open" /\ r.service_detected = None
           service == IF detect THEN detected ELSE r.service_detected
       IN /\ detected \in (IF detect THEN DetectOutcomes ELSE {None})
          /\ hostTasks' = [hostTasks EXCEPT
                ![h].results[hostTasks[h].idx].service_detected = service,
                ![h].idx = @ + 1]
          /\ cache' \in CacheResultOutcomes(cache, h, r.port, r.status,
                                           service, scan.scan_type, now)
    /\ UNCHANGED <<file, scanner, scan, hostPermits, portTasks, scans,
                   learned, now, cacheOps, lastCall>>
    /\ UNCHANGED <<probeVars, learnVars, callVars>>

\* The loop over the port results of host h has ended.
HostLearnGuardMutEarly(h) == hostTasks[h].pc = "joined"
HostLearnGuard(h) ==
    hostTasks[h].pc = "joined"
        /\ hostTasks[h].idx > Len(hostTasks[h].results)

\* The end of scan_single_host: the learning data is built, learn_from_scan
\* updates the task's store and saves it to the file, and the task returns
\* its ScanResult, which releases its host permit.
HostLearn(h) ==
    /\ HostLearnGuard(h)
    /\ LET data == LearningData(h, hostTasks[h].results, hostTasks[h].eff)
           store == LearnFromScan(hostTasks[h].store, data)
       IN /\ hostTasks' = [hostTasks EXCEPT ![h].pc = "done",
                                            ![h].store = store]
          /\ file' = Some(store)
    /\ hostPermits' = hostPermits + 1
    /\ learned' = [learned EXCEPT ![h] = @ + 1]
    /\ UNCHANGED <<scanner, scan, portTasks, scans, cacheVars>>
    /\ UNCHANGED <<probeVars, learnVars, callVars>>

\* A host task panics once its port tasks have joined, in the service
\* detection of its first result: its JoinHandle yields a JoinError.
HostAbort(h) ==
    /\ hostTasks[h].pc = "joined"
    /\ hostTasks[h].idx = 1
    /\ hostTasks' = [hostTasks EXCEPT ![h] = [IdleHost EXCEPT !.pc = "failed"]]
    /\ hostPermits' = hostPermits + 1
    /\ UNCHANGED <<file, scanner, scan, portTasks, scans, learned, cacheVars>>
    /\ UNCHANGED <<probeVars, learnVars, callVars>>

\* The MultiHostScanResult of the scan, or the error: collect() of the join
\* results stops at a JoinError, and that of the host results at an Err.
ScanResultOfMutDropLast(targets, port_list, tasks) ==
    [ok |-> TRUE,
     total_hosts |-> Cardinality(targets),
     total_ports |-> Len(port_list),
     hosts |-> [h \in targets |->
                  SubSeq(tasks[h].results, 1, Len(tasks[h].results) - 1)]]
ScanResultOf(targets, port_list, tasks) ==
    IF \E h \in targets : tasks[h].pc \in {"failed", "error"}
    THEN [ok |-> FALSE]
    ELSE [ok |-> TRUE,
          total_hosts |-> Cardinality(targets),
          total_ports |-> Len(port_list),
          hosts |-> [h \in targets |-> tasks[h].results]]

\* join_all(host_tasks) of Scanner::scan returns and scan returns.
\* scan.completed keeps the ScanResult of every host task that returned one.
ScanReturn ==
    /\ scan.pc = "running"
    /\ \A h \in scan.targets : hostTasks[h].pc \in {"done", "failed", "error"}
    /\ scan' = [pc |-> "returned",
                targets |-> scan.targets,
                port_list |-> scan.port_list,
                scan_type |-> scan.scan_type,
                result |-> ScanResultOf(scan.targets, scan.port_list,
                                        hostTasks),
                completed |->
                    [h \in {t \in scan.targets : hostTasks[t].pc = "done"}
                        |-> hostTasks[h].results]]
    /\ hostTasks' = [h \in ScanHosts |-> IdleHost]
    /\ hostPermits' = 0
    /\ UNCHANGED <<file, scanner, portTasks, scans, learned, cacheVars>>
    /\ UNCHANGED <<probeVars, learnVars, callVars>>

---------------------------------------------------------------------------
(* The probe step of one port task (src/src/scanner/mod.rs 213-243) with   *)
(* the TCP primitives it calls (src/src/scanner/tcp.rs).                   *)

\* is_private_ip of scanner/mod.rs for an IPv4 address.
IsPrivateIp(ip) ==
    \/ ip[1] = 10
    \/ (ip[1] = 172 /\ ip[2] >= 16 /\ ip[2] <= 31)
    \/ (ip[1] = 192 /\ ip[2] = 168)
    \/ ip[1] = 127
    \/ (ip[1] = 169 /\ ip[2] = 254)

\* Inputs of the probe step: the TCP scan types, a private and a public
\* target, one port, timeouts below, at and above the 300 ms of
\* fast_connect_scan, and whether the process is root.
ProbeScanTypes == {"Syn", "Connect", "Fin", "Xmas", "Null"}
ProbeTargets == {LanHost, PublicHost}
ProbePorts == {22}
ProbeTimeouts == {100, 300, 1000}

\* How timeout(duration, TcpStream::connect(addr)) may end.
ConnectOutcomes == {"connected", "refused", "unreachable", "elapsed"}

\* The flags of a received segment that perform_raw_scan tests.
TcpFlagSets == SUBSET {"SYN", "ACK", "RST"}

\* Segments a raw scan may receive and pass over before it returns.
MaxPackets == 1

\* The primitive path a probe takes: the match on scan_type of
\* scan_single_host and the is_root tests of syn_scan, fin_scan, xmas_scan
\* and null_scan ("error" is their return of PortStatus::Error).
DispatchMutSynFast(scan_type, target, root) ==
    IF scan_type \in {"Connect", "Syn"}
    THEN (IF IsPrivateIp(target) \/ scan_type = "Syn"
          THEN "fast_connect" ELSE "connect")
    ELSE (IF root THEN "raw" ELSE "error")
Dispatch(scan_type, target, root) ==
    CASE scan_type = "Connect" ->
            (IF IsPrivateIp(target) THEN "fast_connect" ELSE "connect")
      [] scan_type = "Syn" -> (IF root THEN "raw" ELSE "connect")
      [] OTHER -> (IF root THEN "raw" ELSE "error")

\* connect_scan: the status for the way its one attempt ended.
ConnectStatusMutErrorClosed(outcome) ==
    CASE outcome = "connected" -> "Open"
      [] outcome = "elapsed" -> "Filtered"
      [] OTHER -> "Closed"
ConnectStatus(outcome) ==
    CASE outcome = "connected" -> "Open"
      [] outcome = "refused" -> "Closed"
      [] OTHER -> "Filtered"

\* fast_connect_scan: the status for the way its second attempt ended.
RetryStatus(outcome) ==
    CASE outcome = "connected" -> "Open"
      [] outcome = "elapsed" -> "Filtered"
      [] OTHER -> "Closed"

\* The time limit of the first connection attempt.
FirstTimeout(primitive, timeout_ms) ==
    IF primitive = "fast_connect" THEN Min(timeout_ms, 300) ELSE timeout_ms

\* fast_connect_scan: the time limit of the second attempt, after the first
\* ended in an error other than a refusal (full_timeout) or ran out of time
\* (timeout_ms.saturating_sub(300)).
RetryTimeout(first_outcome, timeout_ms) ==
    IF first_outcome = "elapsed" THEN Max(timeout_ms - 300, 0)
    ELSE timeout_ms

\* perform_raw_scan: what it decides on a segment that matches the probe;
\* None is "keep listening".
RawDecisionMutAnyReplyOpen(scan_type, flags) == Some("Open")
RawDecision(scan_type, flags) ==
    IF "SYN" \in flags /\ "ACK" \in flags THEN Some("Open")
    ELSE IF "RST" \in flags THEN Some("Closed")
    ELSE IF scan_type # "Syn" THEN Some("Open")
    ELSE None

\* perform_raw_scan: the status when the listening loop runs out of time.
RawTimeoutStatus(scan_type) ==
    IF scan_type = "Syn" THEN "Filtered" ELSE "Open"

\* The PortResult the port task builds from the status of its probe.
\* scan_duration is the time the probe took; waited is the part of it the
\* model knows, the time limits that ran out.
ProbedPortResult(port, status, waited) ==
    [port |-> port,
     status |-> status,
     is_filtered |-> status = "Filtered",
     response_time |-> Some(waited),
     service_detected |-> None]

IdleProbe ==
    [pc |-> "idle", scan_type |-> "Connect", target |-> PublicHost,
     port |-> 22, timeout_ms |-> 0, root |-> FALSE, primitive |-> "none",
     limit |-> 0, attempts |-> <<>>, sent |-> FALSE, packets |-> 0,
     reply |-> None, timed_out |-> FALSE, result |-> None]

ProbeInit == probe = IdleProbe

\* The probe as it returns with a status.
Returned(pr, status, waited) ==
    [pr EXCEPT !.pc = "returned",
               !.result = Some(ProbedPortResult(pr.port, status, waited))]

\* The time limits of the attempts that ran out of time.
RECURSIVE WaitedIn(_)
WaitedIn(attempts) ==
    IF attempts = <<>> THEN 0
    ELSE (IF Head(attempts).outcome = "elapsed"
          THEN Head(attempts).limit ELSE 0) + WaitedIn(Tail(attempts))

\* A port task that missed the cache starts its probe: the primitive is
\* chosen; a raw scan opens its channel, builds its segment and sends it
\* (io_ok tells whether that succeeded) and starts to listen.
ProbeStart(scan_type, target, port, timeout_ms, root, io_ok) ==
    /\ probe.pc \in {"idle", "returned"}
    /\ LET primitive == Dispatch(scan_type, target, root)
           started == [IdleProbe EXCEPT
                          !.scan_type = scan_type, !.target = target,
                          !.port = port, !.timeout_ms = timeout_ms,
                          !.root = root, !.primitive = primitive]
       IN probe' =
            CASE primitive = "error" -> Returned(started, "Error", 0)
              [] primitive = "raw" ->
                    (IF io_ok
                     THEN [started EXCEPT !.pc = "listening", !.sent = TRUE]
                     ELSE Returned(started, "Error", 0))
              [] OTHER ->
                    [started EXCEPT
                        !.pc = "connecting",
                        !.limit = FirstTimeout(primitive, timeout_ms)]
    /\ UNCHANGED <<cacheVars, engineVars, learnVars, callVars>>

\* A connection attempt ends. A limit of 0 ms runs out before the
\* connection can be made.
ConnectReturns(outcome) ==
    /\ probe.pc = "connecting"
    /\ outcome # "elapsed" => probe.limit > 0
    /\ LET attempts == Append(probe.attempts,
                              [limit |-> probe.limit, outcome |-> outcome])
           tried == [probe EXCEPT !.attempts = attempts]
           waited == WaitedIn(attempts)
       IN probe' =
            IF probe.primitive = "connect"
            THEN Returned(tried, ConnectStatus(outcome), waited)
            ELSE IF Len(attempts) = 1
            THEN CASE outcome = "connected" -> Returned(tried, "Open", waited)
                   [] outcome = "refused" -> Returned(tried, "Closed", waited)
                   [] OTHER ->
                        [tried EXCEPT
                            !.limit = RetryTimeout(outcome, probe.timeout_ms)]
            ELSE Returned(tried, RetryStatus(outcome), waited)
    /\ UNCHANGED <<cacheVars, engineVars, learnVars, callVars>>

\* A raw scan receives a segment: one that matches the probe may decide the
\* status, any other is passed over.
RawPacket(matching, flags) ==
    /\ probe.pc = "listening"
    /\ LET decision == IF matching THEN RawDecision(probe.scan_type, flags)
                       ELSE None
       IN IF decision # None
          THEN probe' = Returned([probe EXCEPT !.reply = Some(flags)],
                                 decision[1], 0)
          ELSE /\ probe.packets < MaxPackets
               /\ probe' = [probe EXCEPT !.packets = @ + 1]
    /\ UNCHANGED <<cacheVars, engineVars, learnVars, callVars>>

\* The listening loop of a raw scan runs out of time.
RawTimeout ==
    /\ probe.pc = "listening"
    /\ probe' = Returned([probe EXCEPT !.timed_out = TRUE],
                         RawTimeoutStatus(probe.scan_type), probe.timeout_ms)
    /\ UNCHANGED <<cacheVars, engineVars, learnVars, callVars>>

ProbeNext ==
    \/ \E st \in ProbeScanTypes, t \in ProbeTargets, p \in ProbePorts,
          ms \in ProbeTimeouts, root \in BOOLEAN, io_ok \in BOOLEAN :
          ProbeStart(st, t, p, ms, root, io_ok)
    \/ \E o \in ConnectOutcomes : ConnectReturns(o)
    \/ \E m \in BOOLEAN, f \in TcpFlagSets : RawPacket(m, f)
    \/ RawTimeout

---------------------------------------------------------------------------
(* Functions studied alone: each call records its arguments and result.    *)

CallInit == call = [op |-> "none"]

\* Every other part of the model is left alone by such a call.
OthersUnchanged == UNCHANGED <<cacheVars, engineVars, probeVars, learnVars>>

\* No call is in progress: none was made yet, or the last one returned.
NoCallInProgress == call.op \in {"none", "idle"}

\* The caller takes the result; the next call may be made.
CallReturn ==
    /\ ~NoCallInProgress
    /\ call' = [op |-> "idle"]
    /\ OthersUnchanged

---------------------------------------------------------------------------
(* get_smart_port_list (src/src/adaptive.rs).                              *)

\* take(100), and the 30 days in seconds over which recency decays.
SmartPortLimit == 100
RecencyWindow == 86400 * 30

\* The clock at the call, and the last_seen values of the entries: just
\* seen, seen half the window ago, seen a window and more ago, never seen
\* open (last_seen = 0). No entry was seen after the call.
SmartNow == 3 * RecencyWindow
LastSeenValues ==
    <<SmartNow, SmartNow - RecencyWindow \div 2, SmartNow - RecencyWindow, 0>>

\* The keys of port_intelligence, as many as the store holds: the ports
\* with a network bonus first, then others.
SmartPortAt(i) ==
    IF i <= 5 THEN <<22, 80, 443, 445, 135>>[i] ELSE 1000 + i

\* Stores get_smart_port_list is called on: none, fewer than, exactly and
\* more than 100 entries, with success rates all equal, rising with the
\* port or mixed, and last_seen all fresh or mixed.
SmartCounts == {0, 3, 100, 101, 104}
RatePatterns == {"flat", "rising", "mixed"}
AgePatterns == {"fresh", "mixed"}
IterationOrders == {"forward", "backward"}
NetworkTypes == {"LocalHost", "PrivateLAN", "PublicInternet", "CloudProvider"}

\* The PortIntelligence entries of such a store, in one order;
\* success_rate and service_confidence are in hundredths here.
SmartEntries(n, rates, ages) ==
    [i \in 1..n |->
        [port |-> SmartPortAt(i),
         success_rate |-> CASE rates = "flat" -> 50
                            [] rates = "rising" -> i \div 2 + 1
                            [] OTHER -> ((i * 37) % 11) * 10,
         service_confidence |-> IF i % 2 = 0 THEN 50 ELSE 90,
         last_seen |-> IF ages = "fresh" THEN SmartNow
                       ELSE LastSeenValues[(i % 4) + 1]]]

\* The order in which the HashMap yields its entries.
Reverse(seq) == [i \in 1..Len(seq) |-> seq[Len(seq) + 1 - i]]
Iterate(entries, order) ==
    IF order = "forward" THEN entries ELSE Reverse(entries)

\* recency_factor in thousandths: 1.0 - (age / 30 days).min(1.0).
RecencyFactor(last_seen, clock) ==
    1000 - Min((clock - last_seen) \div (RecencyWindow \div 1000), 1000)

\* network_bonus in tenths.
NetworkBonus(network_type, port) ==
    CASE network_type = "LocalHost" ->
            (IF port = 22 \/ port = 80 THEN 20 ELSE 10)
      [] network_type = "PrivateLAN" ->
            (IF port = 445 \/ port = 135 THEN 15 ELSE 10)
      [] network_type = "PublicInternet" ->
            (IF port = 80 \/ port = 443 THEN 15 ELSE 10)
      [] network_type = "CloudProvider" ->
            (IF port = 22 \/ port = 80 \/ port = 443 THEN 15 ELSE 10)

\* score = success_rate * service_confidence * recency_factor * bonus.
PortScore(intel, network_type, clock) ==
    intel.success_rate * intel.service_confidence
        * RecencyFactor(intel.last_seen, clock)
        * NetworkBonus(network_type, intel.port)

\* sort_by(|a, b| b.1.partial_cmp(&a.1).unwrap()): a stable sort into
\* descending score. Pairs are <<port, score>>; an element goes after the
\* elements of higher score and after the earlier elements of its score.
SortDescending(pairs) ==
    LET n == Len(pairs)
        position ==
            SubSeq([i \in 1..n |->
                      1 + Cardinality({j \in 1..n : pairs[j][2] > pairs[i][2]})
                        + Cardinality({j \in 1..(i - 1) :
                                          pairs[j][2] = pairs[i][2]})],
                   1, n)
    IN SubSeq([k \in 1..n |-> pairs[CHOOSE i \in 1..n : position[i] = k]],
              1, n)

\* The first n elements.
Take(seq, n) == SubSeq(seq, 1, Min(Len(seq), n))

\* get_smart_port_list on the entries as the map yields them.
GetSmartPortListMutTakeFirst(entries, network_type, clock) ==
    LET port_scores ==
            SubSeq([i \in 1..Len(entries) |->
                      <<entries[i].port,
                        PortScore(entries[i], network_type, clock)>>],
                   1, Len(entries))
        sorted == SortDescending(Take(port_scores, SmartPortLimit))
    IN [i \in 1..Len(sorted) |-> sorted[i][1]]
GetSmartPortList(entries, network_type, clock) ==
    LET port_scores ==
            SubSeq([i \in 1..Len(entries) |->
                      <<entries[i].port,
                        PortScore(entries[i], network_type, clock)>>],
                   1, Len(entries))
        sorted == Take(SortDescending(port_scores), SmartPortLimit)
    IN [i \in 1..Len(sorted) |-> sorted[i][1]]

\* A call of get_smart_port_list.
SmartCall(n, rates, ages, order, network_type) ==
    /\ NoCallInProgress
    /\ LET entries == Iterate(SmartEntries(n, rates, ages), order)
       IN call' = [op |-> "smart_port_list",
                   entries |-> entries,
                   network_type |-> network_type,
                   clock |-> SmartNow,
                   ports |-> GetSmartPortList(entries, network_type,
                                              SmartNow)]
    /\ OthersUnchanged

SmartNext ==
    \/ \E n \in SmartCounts, rates \in RatePatterns, ages \in AgePatterns,
          order \in IterationOrders, network_type \in NetworkTypes :
           SmartCall(n, rates, ages, order, network_type)
    \/ CallReturn

---------------------------------------------------------------------------
(* detect_service_parallel (src/src/scanner/parallel_detector.rs).         *)

\* The probe tasks in the order they are spawned: one per payload of each
\* detector of ParallelProtocolDetector::new, in declaration order
\* (PostgreSQL and MongoDB declare one payload, Redis three).
ProbeTasks == <<"PostgreSQL", "MongoDB", "Redis", "Redis", "Redis">>

\* What the detect of each detector may return on a response; confidence
\* is in hundredths.
Detections(detector) ==
    CASE detector = "PostgreSQL" ->
            {[service_name |-> "PostgreSQL-Database", confidence |-> c,
              version |-> IF c = 95 THEN Some("Mock") ELSE None] :
                c \in {85, 90, 95}}
      [] detector = "MongoDB" ->
            {[service_name |-> "MongoDB-Database", confidence |-> c,
              version |-> IF c = 80 THEN Some("Mock") ELSE None] :
                c \in {80, 85, 88}}
      [] detector = "Redis" ->
            {[service_name |-> "Redis-Service", confidence |-> 85,
              version |-> None]}

\* How a probe task may end: its JoinHandle yields the ProbeResult, whose
\* result is a detection or None (no response, or one the detector does
\* not know), or it yields a JoinError.
TaskOutcomes(detector) ==
    {[joined |-> TRUE, result |-> None]}
        \cup {[joined |-> TRUE, result |-> Some(d)] : d \in Detections(detector)}
        \cup (IF detector = "Redis" THEN {[joined |-> FALSE]} ELSE {})

\* The outcomes of the five tasks of one call.
JoinedProbeResults ==
    {o \in [DOMAIN ProbeTasks ->
                UNION {TaskOutcomes(d) : d \in {"PostgreSQL", "MongoDB",
                                                 "Redis"}}] :
        \A i \in DOMAIN ProbeTasks : o[i] \in TaskOutcomes(ProbeTasks[i])}

\* "Collect successful results": the detections of the tasks that joined
\* with one, in task order.
RECURSIVE SuccessfulResults(_)
SuccessfulResults(probe_results) ==
    IF probe_results = <<>> THEN <<>>
    ELSE LET rest == SuccessfulResults(Tail(probe_results))
             first == Head(probe_results)
         IN IF first.joined /\ first.result # None
            THEN <<first.result[1]>> \o rest
            ELSE rest

\* Iterator::max_by on confidence: a fold that keeps the element so far
\* only when it compares Greater than the next, so of equal maxima the
\* last is returned.
RECURSIVE MaxByConfidence(_, _)
MaxByConfidence(best, rest) ==
    IF rest = <<>> THEN best
    ELSE MaxByConfidence(IF best.confidence > Head(rest).confidence
                         THEN best ELSE Head(rest),
                         Tail(rest))

\* detect_service_parallel from the joined probe tasks on.
DetectServiceParallel(probe_results) ==
    LET results == SuccessfulResults(probe_results)
    IN IF results = <<>> THEN None
       ELSE LET best_result == MaxByConfidence(Head(results), Tail(results))
            IN Some([name |-> best_result.service_name,
                     version |-> best_result.version,
                     confidence |-> best_result.confidence])

\* A call of detect_service_parallel whose probe tasks end as given.
DetectCall(probe_results) ==
    /\ NoCallInProgress
    /\ call' = [op |-> "detect_service_parallel",
                probe_results |-> probe_results,
                service |-> DetectServiceParallel(probe_results)]
    /\ OthersUnchanged

DetectNext ==
    \/ \E o \in JoinedProbeResults : DetectCall(o)
    \/ CallReturn

---------------------------------------------------------------------------
(* The service fingerprinter (scanner/aggressive_probing.rs). Confidence   *)
(* is in hundredths. A phase is given by what its probes came back with;   *)
(* the value carried through the phases is the fingerprint as far as it    *)
(* has been written, with the confidences the phases produced so far.      *)

\* What analyze_unknown_response makes of the text analyze_tls_response
\* builds: HTTPS on 443 and 8443, Syncthing on 22000, and a TLS 1.2 or 1.3
\* server on a port outside the table.
TlsClassifications ==
    {[service |-> "HTTPS", confidence |-> 90],
     [service |-> "Syncthing", confidence |-> 95],
     [service |-> "Unknown-TLS-Service", confidence |-> 75]}

\* analyze_bittorrent_response: the handshake answered in kind, or an
\* answer of 28 bytes or more that mentions "torrent" or "peer".
BitTorrentClassifications ==
    {[service |-> "qBittorrent/BitTorrent", confidence |-> 95],
     [service |-> "BitTorrent-like", confidence |-> 70]}

\* classify_response: a pattern of the step's protocol with its weight.
StepClassifications ==
    {[service |-> "DNS Server", confidence |-> 80],
     [service |-> "OpenSSH", confidence |-> 95]}

\* analyze_unknown_response on the answer to a hail-mary probe, down to
\* its fallbacks.
HailMaryClassifications ==
    {[service |-> "Unknown-Service", confidence |-> 20],
     [service |-> "Binary-Protocol", confidence |-> 50]}

\* The first auth probe answered with ServiceIdentified or Bypass, if any.
AuthResponses == {"none", "service_identified", "bypass"}

Optional(S) == {None} \cup {Some(x) : x \in S}

\* The probe templates of a port: none, or two probes of two steps and one
\* step, each step with what its response classified as.
TemplateOutcomes ==
    {<<>>} \cup {<<<<a, b>>, <<c>>>> :
                    a \in Optional(StepClassifications),
                    b \in Optional(StepClassifications),
                    c \in Optional(StepClassifications)}

\* The hail-mary probes in order, each with its classification.
HailMaryOutcomes ==
    {<<a, b>> : a \in Optional(HailMaryClassifications),
                b \in Optional(HailMaryClassifications)}

UnknownFingerprint ==
    [fingerprint |-> [service_name |-> "unknown", confidence |-> 0],
     produced |-> <<>>]

\* fingerprint.service_name = service; fingerprint.confidence = confidence
Assign(st, service, confidence) ==
    [fingerprint |-> [service_name |-> service, confidence |-> confidence],
     produced |-> Append(st.produced, confidence)]

\* The steps of one probe: a classification overwrites the fingerprint
\* and, above 0.7, ends the probe.
RECURSIVE ProbeSteps(_, _)
ProbeSteps(st, steps) ==
    IF steps = <<>> THEN st
    ELSE IF Head(steps) = None THEN ProbeSteps(st, Tail(steps))
    ELSE LET service_info == Head(steps)[1]
             written == Assign(st, service_info.service,
                               service_info.confidence)
         IN IF service_info.confidence > 70 THEN written
            ELSE ProbeSteps(written, Tail(steps))

\* The probes of the port in order, until the fingerprint is above 0.7.
RECURSIVE PortProbes(_, _)
PortProbes(st, probes) ==
    IF probes = <<>> THEN st
    ELSE LET after == ProbeSteps(st, Head(probes))
         IN IF after.fingerprint.confidence > 70 THEN after
            ELSE PortProbes(after, Tail(probes))

\* The BitTorrent check, the possible-P2P special case and the port's
\* probes, on the fingerprint the TLS preamble left.
AfterTls(st, bt, p2p, probes) ==
    IF bt # None
    THEN Assign(st, bt[1].service, bt[1].confidence)
    ELSE IF p2p
    THEN Assign(st, "Unknown service (possible P2P)", 50)
    ELSE PortProbes(st, probes)

\* execute_port_probes
ExecutePortProbes(tls, bt, p2p, probes) ==
    LET preamble == IF tls = None THEN UnknownFingerprint
                    ELSE Assign(UnknownFingerprint, tls[1].service,
                                tls[1].confidence)
    IN IF tls # None /\ tls[1].confidence > 80 THEN preamble
       ELSE AfterTls(preamble, bt, p2p, probes)

\* test_authentication
TestAuthentication(st, auth) ==
    CASE auth = "service_identified" ->
            Assign(st, st.fingerprint.service_name,
                   Min(st.fingerprint.confidence + 40, 100))
      [] auth = "bypass" ->
            Assign(st, st.fingerprint.service_name,
                   Min(st.fingerprint.confidence + 20, 100))
      [] OTHER -> st

\* The loop of hail_mary_probing: the best classification strictly above
\* max_confidence.
RECURSIVE BestGuess(_, _, _)
BestGuess(best_guess, max_confidence, answers) ==
    IF answers = <<>> THEN best_guess
    ELSE IF Head(answers) # None
            /\ Head(answers)[1].confidence > max_confidence
    THEN BestGuess(Head(answers), Head(answers)[1].confidence,
                   Tail(answers))
    ELSE BestGuess(best_guess, max_confidence, Tail(answers))

\* hail_mary_probing
HailMaryProbing(st, answers) ==
    LET best_guess == BestGuess(None, st.fingerprint.confidence, answers)
    IN IF best_guess = None THEN st
       ELSE Assign(st, best_guess[1].service, best_guess[1].confidence)

\* aggressively_probe_service; ml_classify_responses returns the
\* fingerprint it is given.
AggressivelyProbeService(tls, bt, p2p, probes, auth, answers) ==
    LET phase1 == ExecutePortProbes(tls, bt, p2p, probes)
        phase2 == IF phase1.fingerprint.confidence < 50
                  THEN TestAuthentication(phase1, auth)
                  ELSE phase1
        phase3 == IF phase2.fingerprint.confidence < 30
                  THEN HailMaryProbing(phase2, answers)
                  ELSE phase2
    IN phase3

\* A call of aggressively_probe_service on a port that answers in any of
\* the ways above.
FingerprintCall ==
    /\ NoCallInProgress
    /\ \E tls \in Optional(TlsClassifications),
          bt \in Optional(BitTorrentClassifications),
          p2p \in BOOLEAN,
          probes \in TemplateOutcomes,
          auth \in AuthResponses,
          answers \in HailMaryOutcomes :
             LET result == AggressivelyProbeService(tls, bt, p2p, probes,
                                                    auth, answers)
             IN call' = [op |-> "aggressively_probe_service",
                         tls |-> tls, bt |-> bt, p2p |-> p2p,
                         probes |-> probes, auth |-> auth,
                         answers |-> answers,
                         fingerprint |-> result.fingerprint,
                         produced |-> result.produced]
    /\ OthersUnchanged

FingerprintNext ==
    \/ FingerprintCall
    \/ CallReturn

---------------------------------------------------------------------------
(* Target parsing (network.rs). An atom of the target specification is     *)
(* given by what its text holds: the characters that route it and what     *)
(* the standard library or ipnet parses its pieces to. A u32 is kept as    *)
(* its two 16-bit halves, high half first.                                 *)

MaxRangeSpan == 10000

\* u32::from(Ipv4Addr)
U32From(ip) == <<ip[1] * 256 + ip[2], ip[3] * 256 + ip[4]>>

\* Ipv4Addr::from(u32)
Ipv4From(u) == <<u[1] \div 256, u[1] % 256, u[2] \div 256, u[2] % 256>>

\* a > b on u32
U32Greater(a, b) == a[1] > b[1] \/ (a[1] = b[1] /\ a[2] > b[2])

\* a - b on u32, for b <= a; a difference of 2^17 or more is reported as
\* 2^17, which is above every limit it is compared with.
U32Sub(a, b) ==
    IF a[1] - b[1] >= 2 THEN 131072
    ELSE (a[1] - b[1]) * 65536 + (a[2] - b[2])

\* u + i on u32, for a small i that does not carry out of the u32
U32Add(u, i) ==
    LET low == u[2] + i
    IN <<u[1] + low \div 65536, low % 65536>>

\* The addresses the range atoms are written with.
RangeEnds ==
    {<<0, 0, 0, 0>>, <<10, 0, 0, 0>>, <<10, 0, 0, 2>>, <<10, 0, 39, 15>>,
     <<10, 0, 39, 16>>, <<10, 0, 39, 17>>, <<192, 168, 1, 1>>,
     <<192, 168, 1, 3>>, <<255, 255, 255, 255>>}

\* What one side of "S-E" parses to as an IpAddr: an IPv4 address, an
\* IPv6 address, or nothing.
RangeSides ==
    {[family |-> "v4", ip |-> ip] : ip \in RangeEnds}
        \cup {[family |-> "v6"], [family |-> "none"]}

RangeAtoms ==
    {[kind |-> "range", start |-> s, end |-> e] :
        s \in RangeSides, e \in RangeSides}

\* Atoms without a dash: an address, a name that resolves or does not,
\* and a CIDR block with the hosts ipnet yields for it.
OtherAtoms ==
    {[kind |-> "single", ip |-> Some(<<192, 168, 1, 1>>)],
     [kind |-> "single", ip |-> None],
     [kind |-> "cidr",
      hosts |-> Some({<<192, 168, 1, 1>>, <<192, 168, 1, 2>>})],
     [kind |-> "cidr", hosts |-> None]}

\* A range atom next to which the others are written.
CompanionAtoms ==
    OtherAtoms
        \cup {[kind |-> "range",
               start |-> [family |-> "v4", ip |-> <<192, 168, 1, 1>>],
               end |-> [family |-> "v4", ip |-> <<192, 168, 1, 3>>]]}

\* The target specifications: the atoms between the commas.
TargetSpecs ==
    {<<a>> : a \in RangeAtoms \cup OtherAtoms}
        \cup {<<a, b>> : a \in RangeAtoms, b \in CompanionAtoms}
        \cup {<<b, a>> : a \in RangeAtoms, b \in CompanionAtoms}

Ok(v) == [ok |-> TRUE, value |-> v]
Err(e) == [ok |-> FALSE, error |-> e]

\* part.contains(':'): the text of an IPv6 address
ContainsColon(atom) ==
    atom.kind = "range"
        /\ (atom.start.family = "v6" \/ atom.end.family = "v6")

\* parse_ip_range; the addresses come out as the set of those pushed.
ParseIpRange(atom) ==
    IF atom.start.family = "none" THEN Err("Invalid start IP")
    ELSE IF atom.end.family = "none" THEN Err("Invalid end IP")
    ELSE IF atom.start.family = "v4" /\ atom.end.family = "v4"
    THEN LET start_u32 == U32From(atom.start.ip)
             end_u32 == U32From(atom.end.ip)
         IN IF U32Greater(start_u32, end_u32)
            THEN Err("Start IP must be less than or equal to end IP")
            ELSE IF U32Sub(end_u32, start_u32) > MaxRangeSpan
            THEN Err("IP range too large (max 10000 addresses)")
            ELSE Ok({Ipv4From(U32Add(start_u32, i)) :
                        i \in 0..U32Sub(end_u32, start_u32)})
    ELSE IF atom.start.family = "v6" /\ atom.end.family = "v6"
    THEN Err("IPv6 ranges not yet supported")
    ELSE Err("Start and end IP must be the same version")

\* parse_single_target; the text of a range with a colon in it is neither
\* an address nor a name that resolves.
ParseSingleTarget(atom) ==
    IF atom.kind = "single" /\ atom.ip # None THEN Ok({atom.ip[1]})
    ELSE Err("Failed to resolve hostname")

\* parse_cidr
ParseCidr(atom) ==
    IF atom.hosts # None THEN Ok(atom.hosts[1])
    ELSE Err("Invalid CIDR notation")

\* The body of the loop of parse_targets for one part.
ParsePart(atom) ==
    IF atom.kind = "cidr" THEN ParseCidr(atom)
    ELSE IF atom.kind = "range" /\ ~ContainsColon(atom)
    THEN ParseIpRange(atom)
    ELSE ParseSingleTarget(atom)

\* parse_targets: the first part that fails ends the parse with its
\* error; the sorted vector without duplicates is given as the set of its
\* elements.
RECURSIVE ParseTargets(_, _)
ParseTargets(targets, parts) ==
    IF parts = <<>> THEN Ok(targets)
    ELSE LET parsed == ParsePart(Head(parts))
         IN IF parsed.ok
            THEN ParseTargets(targets \cup parsed.value, Tail(parts))
            ELSE parsed

\* A call of parse_targets.
ParseTargetsCall ==
    /\ NoCallInProgress
    /\ \E target_spec \in TargetSpecs :
          call' = [op |-> "parse_targets", target_spec |-> target_spec,
                   result |-> ParseTargets({}, target_spec)]
    /\ OthersUnchanged

ParseNext ==
    \/ ParseTargetsCall
    \/ CallReturn

---------------------------------------------------------------------------
(* classify_network over both address families (src/src/adaptive.rs). An   *)
(* IpAddr is [family |-> "v4", ip |-> octets] or [family |-> "v6",         *)
(* segments |-> the eight 16-bit segments].                                *)

\* Ipv6Addr::is_loopback: the address ::1
Ipv6IsLoopback(segments) == segments = <<0, 0, 0, 0, 0, 0, 0, 1>>

\* The IpAddr::V6 arm: 0xfe80 is 65152; segments()[0] & 0xfe00 == 0xfc00
\* holds for the first segments 0xfc00 to 0xfdff, that is 64512 to 65023.
ClassifyNetworkV6MutPublic(segments) ==
    IF Ipv6IsLoopback(segments) THEN "LocalHost" ELSE "PublicInternet"

ClassifyNetworkV6(segments) ==
    IF Ipv6IsLoopback(segments) THEN "LocalHost"
    ELSE IF segments[1] = 65152 \/ (segments[1] \div 512) * 512 = 64512
    THEN "PrivateLAN"
    ELSE "PublicInternet"

\* classify_network
ClassifyIpAddr(addr) ==
    IF addr.family = "v4" THEN ClassifyNetwork(addr.ip)
    ELSE ClassifyNetworkV6(addr.segments)

\* The addresses classified: the octets and segments at and next to every
\* boundary the function tests.
FirstOctets == {0, 3, 4, 9, 10, 11, 13, 15, 20, 34, 40, 126, 127, 128,
                169, 172, 192, 198, 255}
SecondOctets == {0, 7, 8, 15, 16, 31, 32, 63, 64, 127, 128, 167, 168, 169,
                 254}
FirstSegments == {0, 8193, 64511, 64512, 64768, 65023, 65024, 65152, 65153,
                  65280}
ClassifiedAddresses ==
    {[family |-> "v4", ip |-> <<a, b, 0, 1>>] :
        a \in FirstOctets, b \in SecondOctets}
        \cup {[family |-> "v6", segments |-> <<s, 0, 0, 0, 0, 0, 0, last>>] :
                s \in FirstSegments, last \in {0, 1, 2}}
        \cup {[family |-> "v6",
               segments |-> <<0, 0, 0, 0, 0, 65535, 32512, 1>>]}

\* A call of classify_network.
ClassifyCall ==
    /\ NoCallInProgress
    /\ \E addr \in ClassifiedAddresses :
          call' = [op |-> "classify_network", ip |-> addr,
                   network_type |-> ClassifyIpAddr(addr)]
    /\ OthersUnchanged

ClassifyNext ==
    \/ ClassifyCall
    \/ CallReturn

---------------------------------------------------------------------------
(* The command line (cli.rs, main.rs): the Scanner main constructs from    *)
(* the options given, and the effective parameters of a host scan with it. *)

\* The --rate-limit, --timeout and --parallel-hosts options of Cli, each
\* given or omitted.
CliOptions ==
    [rate_limit : Optional({5, 10}),
     timeout : Optional({100, 1000, 3000}),
     parallel_hosts : Optional({1, 50})]

\* Option::unwrap_or
UnwrapOr(option, default) == IF option = None THEN default ELSE option[1]

\* main: Scanner::new(cli.rate_limit.unwrap_or(10),
\* cli.timeout.unwrap_or(3000), cli.parallel_hosts.unwrap_or(50))
ScannerOfCli(cli) ==
    [rate_limit |-> UnwrapOr(cli.rate_limit, 10),
     timeout |-> UnwrapOr(cli.timeout, 3000),
     parallel_hosts |-> UnwrapOr(cli.parallel_hosts, 50)]

\* The stores the scanner may have loaded: the default one, and one that
\* has learned from a scan.
LoadedStores ==
    {DefaultStore} \cup {LearnFromScan(DefaultStore, d) : d \in LearnInputs}

\* A run of the program up to the effective parameters of the scan of one
\* target.
MainCall ==
    /\ NoCallInProgress
    /\ \E cli \in CliOptions, target \in RecommendTargets,
          store \in LoadedStores :
          LET optimal_params == GetOptimalParams(store, target)
          IN call' = [op |-> "main", cli |-> cli, target |-> target,
                      scanner |-> ScannerOfCli(cli),
                      optimal_params |-> optimal_params,
                      effective |-> EffectiveParams(ScannerOfCli(cli),
                                                    optimal_params)]
    /\ OthersUnchanged

MainNext ==
    \/ MainCall
    \/ CallReturn

---------------------------------------------------------------------------
(* One host scanned again and again as the clock advances: the cache       *)
(* lookups, the probes and the write-back of scan_single_host              *)
(* (scanner/mod.rs). Each scan falls within one second of the clock. The   *)
(* record of the scans is kept in call: the result of every port task of   *)
(* the scan in progress and, for every port, when it was last probed.      *)

RescanTarget == Localhost
RescanPortList == <<22, 80>>
RescanScanType == "Connect"
RescanStatuses == {"Open", "Closed"}

\* No scan of the host is in progress.
RescanIdle == call.op = "none" \/ (call.op = "rescan" /\ call.pc = "returned")

\* When each port was last probed, None before its first probe.
LastProbed ==
    IF call.op = "rescan" THEN call.probed_at
    ELSE [p \in Range(RescanPortList) |-> None]

\* scan_single_host spawns the port tasks.
RescanStart ==
    /\ RescanIdle
    /\ call' = [op |-> "rescan", pc |-> "ports",
                port_results |-> [p \in Range(RescanPortList) |-> None],
                probed_at |-> LastProbed]
    /\ UNCHANGED <<cacheVars, engineVars, probeVars, learnVars>>

\* The task of port p: the cached result when get_cached_result has one,
\* else the status the probe primitive observes.
RescanPort(p, status) ==
    /\ call.op = "rescan" /\ call.pc = "ports"
    /\ call.port_results[p] = None
    /\ LET cached == GetCachedResult(cache, RescanTarget, p, RescanScanType,
                                     now)
       IN IF cached # None
          THEN call' = [call EXCEPT !.port_results[p] =
                           Some([port |-> p, status |-> cached[1].status,
                                 service_detected |-> cached[1].service,
                                 from_cache |-> TRUE, at |-> now])]
          ELSE call' = [call EXCEPT
                           !.port_results[p] =
                               Some([port |-> p, status |-> status,
                                     service_detected |-> None,
                                     from_cache |-> FALSE, at |-> now]),
                           !.probed_at[p] = Some(now)]
    /\ UNCHANGED <<cacheVars, engineVars, probeVars, learnVars>>

\* The service of a port result after the detection step: detect_service
\* runs on an open port that has no service yet.
DetectedService(port_result, detected) ==
    IF port_result.status = "Open" /\ port_result.service_detected = None
    THEN detected
    ELSE port_result.service_detected

\* The caches the loop over port_results may leave: cache_result for
\* every port result in order, at clock time t.
RECURSIVE CacheAllResults(_, _, _, _)
CacheAllResults(c, port_results, detected, t) ==
    IF port_results = <<>> THEN {c}
    ELSE LET r == Head(port_results)
         IN UNION {CacheAllResults(c2, Tail(port_results), detected, t) :
                      c2 \in CacheResultOutcomes(
                                c, RescanTarget, r.port, r.status,
                                DetectedService(r, detected),
                                RescanScanType, t)}

\* The port tasks have joined: service detection and the write-back of
\* every port result to the cache.
RescanWriteBack(detected) ==
    /\ call.op = "rescan" /\ call.pc = "ports"
    /\ \A p \in Range(RescanPortList) : call.port_results[p] # None
    /\ cache' \in CacheAllResults(
                     cache,
                     [i \in DOMAIN RescanPortList |->
                         call.port_results[RescanPortList[i]][1]],
                     detected, now)
    /\ call' = [call EXCEPT !.pc = "returned"]
    /\ UNCHANGED <<now, cacheOps, lastCall>>
    /\ UNCHANGED <<engineVars, probeVars, learnVars>>

\* Time passes between two scans.
RescanTick == RescanIdle /\ Tick

RescanNext ==
    \/ RescanStart
    \/ \E p \in Range(RescanPortList), status \in RescanStatuses :
          RescanPort(p, status)
    \/ \E detected \in Services : RescanWriteBack(detected)
    \/ RescanTick

Init == CacheInit /\ EngineInit /\ ProbeInit /\ LearnInit /\ CallInit

Next ==
    \/ \E cfg \in Configs : NewScanner(cfg)
    \/ \E ts \in TargetLists, pl \in PortLists, st \in ScanTypes :
          ScanStart(ts, pl, st)
    \/ \E h \in ScanHosts : HostAcquire(h)
    \/ \E h \in ScanHosts, p \in Ports : PortAcquire(h, p)
    \/ \E h \in ScanHosts, p \in Ports :
          \E o \in ProbeOutcomes(p) : ProbeComplete(h, p, o)
    \/ \E h \in ScanHosts, p \in Ports : PortWake(h, p)
    \/ \E h \in ScanHosts, p \in Ports : PortAbort(h, p)
    \/ \E h \in ScanHosts : HostJoin(h)
    \/ \E h \in ScanHosts, d \in Services : HostDetectAndCache(h, d)
    \/ \E h \in ScanHosts : HostLearn(h)
    \/ \E h \in ScanHosts : HostAbort(h)
    \/ ScanReturn

---------------------------------------------------------------------------
(* The learning data of a host scan (scanner/mod.rs 275-322) as a function *)
(* of where each port result came from, and the learn call on it.          *)

\* How the task of a port may have got its result: from the cache, with
\* the entry's status and service, or from a probe, with what it observed.
PortSources(p) ==
    {[from_cache |-> TRUE, cached |-> [status |-> r.status,
                                       service |-> r.service]] :
        r \in CallResults}
        \cup {[from_cache |-> FALSE, outcome |-> o] : o \in ProbeOutcomes(p)}

\* The PortResult of a port task given the source of its result.
PortResultFrom(p, source) ==
    IF source.from_cache THEN CachedPortResult(p, source.cached)
    ELSE ProbedPortResult(p, source.outcome.status, source.outcome.elapsed)

\* scan_single_host from join_all on, for a host whose port tasks got
\* their results as given: the learning data and the store after learn.
LearningDataCall ==
    /\ NoCallInProgress
    /\ \E sources \in [Ports -> UNION {PortSources(p) : p \in Ports}],
          store \in LoadedStores, cfg \in Configs :
          /\ \A p \in Ports : sources[p] \in PortSources(p)
          /\ LET port_list == <<22, 80>>
                 port_results ==
                     [i \in DOMAIN port_list |->
                         PortResultFrom(port_list[i], sources[port_list[i]])]
                 eff == EffectiveParams(cfg,
                                        GetOptimalParams(store, Localhost))
                 data == LearningData(Localhost, port_results, eff)
                 learnt == LearnFromScan(store, data)
             IN call' = [op |-> "learning_data",
                         sources |-> sources,
                         effective_timeout |-> eff.timeout,
                         avg_response_time |-> data.avg_response_time,
                         profile_before |->
                             IF "LocalHost" \in DOMAIN store.network_profiles
                             THEN Some(store.network_profiles["LocalHost"])
                             ELSE None,
                         profile_after |->
                             learnt.network_profiles["LocalHost"]]
    /\ OthersUnchanged

LearningDataNext ==
    \/ LearningDataCall
    \/ CallReturn

---------------------------------------------------------------------------
(* The choice between fast_connect_scan and connect_scan for a target of   *)
(* either family (src/src/scanner/mod.rs 35-56, 216-223).                  *)

\* is_private_ip, the IpAddr::V6 arm: 0xfe80 is 65152, 0xfc00 is 64512 and
\* 0xfd00 is 64768.
IsPrivateIpV6(segments) ==
    \/ Ipv6IsLoopback(segments)
    \/ segments[1] = 65152
    \/ segments[1] = 64512
    \/ segments[1] = 64768

\* is_private_ip
IsPrivateIpAddr(addr) ==
    IF addr.family = "v4" THEN IsPrivateIp(addr.ip)
    ELSE IsPrivateIpV6(addr.segments)

\* The ScanType::Connect arm of the port task.
ConnectPrimitive(addr) ==
    IF IsPrivateIpAddr(addr) THEN "fast_connect" ELSE "connect"

\* The probe of a Connect scan picks its primitive for a target.
ConnectDispatchCall ==
    /\ NoCallInProgress
    /\ \E addr \in ClassifiedAddresses :
          call' = [op |-> "connect_dispatch", ip |-> addr,
                   primitive |-> ConnectPrimitive(addr),
                   network_type |-> ClassifyIpAddr(addr)]
    /\ OthersUnchanged

ConnectDispatchNext ==
    \/ ConnectDispatchCall
    \/ CallReturn

---------------------------------------------------------------------------
(* A fresh AdaptiveLearning that learns from one scan after another        *)
(* (src/src/adaptive.rs 154-162, 236-262).                                 *)

\* Calls of learn_from_scan made on the store.
MaxPortLearns == 4

\* The port results of the scans: port 22, which has a baseline entry, and
\* port 8080, which has none, each found open in some scans and not open in
\* others.
ObservedScans ==
    {{[port |-> 22, is_open |-> TRUE, is_filtered |-> FALSE,
       response_time |-> Some(35)],
      [port |-> 8080, is_open |-> FALSE, is_filtered |-> TRUE,
       response_time |-> None]},
     {[port |-> 22, is_open |-> FALSE, is_filtered |-> FALSE,
       response_time |-> Some(5)],
      [port |-> 8080, is_open |-> TRUE, is_filtered |-> FALSE,
       response_time |-> Some(35)]},
     {[port |-> 8080, is_open |-> TRUE, is_filtered |-> FALSE,
       response_time |-> Some(20)]},
     {[port |-> 8080, is_open |-> FALSE, is_filtered |-> FALSE,
       response_time |-> Some(5)]}}

\* The ScanLearningData of a scan of the local host with these port
\* results.
ObservedData(results) ==
    [target |-> Localhost,
     network_type |-> ClassifyNetwork(Localhost),
     port_results |-> results,
     avg_response_time |-> 35000,
     timeout_rate |-> 100,
     parallelism_used |-> 100,
     rate_limit_used |-> 10,
     scan_performance |-> 900]

\* The store and the scans it has learnt from, before the next call.
PortLearning ==
    IF call.op = "port_learning" THEN call
    ELSE [op |-> "port_learning", store |-> DefaultStore, history |-> <<>>]

\* learn_from_scan on the port results of one more scan.
PortLearnCall ==
    /\ call.op \in {"none", "idle", "port_learning"}
    /\ Len(PortLearning.history) < MaxPortLearns
    /\ \E results \in ObservedScans :
          call' = [op |-> "port_learning",
                   store |-> LearnFromScan(PortLearning.store,
                                           ObservedData(results)),
                   history |-> Append(PortLearning.history, results)]
    /\ OthersUnchanged

PortLearnNext ==
    \/ PortLearnCall
    \/ CallReturn

---------------------------------------------------------------------------
(* update_global_stats with its list of most common ports                  *)
(* (src/src/adaptive.rs 306-332), on a store that learns from one scan     *)
(* after another.                                                          *)

\* most_common_ports.truncate(50)
CommonPortsLimit == 50
\* Scans of one new open port each that fill the list, and scans made
\* after them.
MaxFillScans == CommonPortsLimit + 1
MaxFreeScans == 2

\* The port of the n-th filling scan.
FillPort(n) == 1000 + n

\* data.port_results, a Vec, as far as update_global_stats reads it: the
\* port and is_open. The scans made after the filling ones find port 8080
\* open, alone, beside a closed port, or listed twice, or they find the
\* port of the 50th filling scan open and listed twice.
FreeScans ==
    {<<[port |-> 8080, is_open |-> TRUE]>>,
     <<[port |-> 8080, is_open |-> TRUE], [port |-> 22, is_open |-> FALSE]>>,
     <<[port |-> 8080, is_open |-> TRUE], [port |-> 443, is_open |-> TRUE]>>,
     <<[port |-> 8080, is_open |-> TRUE], [port |-> 8080, is_open |-> TRUE]>>,
     <<[port |-> FillPort(CommonPortsLimit), is_open |-> TRUE],
       [port |-> FillPort(CommonPortsLimit), is_open |-> TRUE]>>}

\* The indices of the open results of a scan.
OpenResults(port_results) ==
    {i \in DOMAIN port_results : port_results[i].is_open}

\* port_counts: the open results of the scan counted per port.
PortCounts(port_results) ==
    [p \in {port_results[i].port : i \in OpenResults(port_results)} |->
        Cardinality({i \in OpenResults(port_results) :
                        port_results[i].port = p})]

\* The orders in which a HashMap may yield its keys.
KeyOrders(keys) ==
    {order \in [1..Cardinality(keys) -> keys] :
        \A i, j \in DOMAIN order : order[i] = order[j] => i = j}

\* The merge loop: the count of a listed port grows, a port not listed is
\* pushed at the end; order is the order in which port_counts yields its
\* entries.
RECURSIVE MergePortCounts(_, _, _)
MergePortCounts(list, port_counts, order) ==
    IF order = <<>> THEN list
    ELSE LET port == Head(order)
             found == {i \in DOMAIN list : list[i][1] = port}
             merged ==
                 IF found # {}
                 THEN LET i == CHOOSE x \in found :
                                  \A y \in found : x <= y
                      IN [list EXCEPT
                             ![i] = <<port, list[i][2] + port_counts[port]>>]
                 ELSE Append(list, <<port, port_counts[port]>>)
         IN MergePortCounts(merged, port_counts, Tail(order))

\* sort_by_key(|(_, count)| Reverse(*count)): a stable sort, so entries of
\* equal count keep their order.
SortByCountDesc(list) ==
    LET n == Len(list)
        rank == [i \in 1..n |->
                   Cardinality({j \in 1..n : list[j][2] > list[i][2]})
                     + Cardinality({j \in 1..i : list[j][2] = list[i][2]})]
    IN SubSeq([k \in 1..n |-> list[CHOOSE i \in 1..n : rank[i] = k]], 1, n)

\* update_global_stats on the statistics with their list.
UpdateGlobalStatsWithPorts(stats, port_results, order) ==
    [total_scans |-> stats.total_scans + 1,
     total_ports_found |->
         stats.total_ports_found + Cardinality(OpenResults(port_results)),
     most_common_ports |->
         Take(SortByCountDesc(
                  MergePortCounts(stats.most_common_ports,
                                  PortCounts(port_results), order)),
              CommonPortsLimit)]

\* The statistics of a fresh store, and with them the history of the
\* calls: how often each port was observed open, and the scans learnt from.
FreshStats ==
    [op |-> "global_stats",
     stats |-> [total_scans |-> 0, total_ports_found |-> 0,
                most_common_ports |-> <<>>],
     observed |-> [p \in {} |-> 0],
     fill_scans |-> 0, free_scans |-> 0]

StatsLearning == IF call.op = "global_stats" THEN call ELSE FreshStats

\* The history after a scan: every open result is one observation of its
\* port.
Observe(observed, port_results) ==
    LET counts == PortCounts(port_results)
    IN [p \in DOMAIN observed \cup DOMAIN counts |->
           (IF p \in DOMAIN observed THEN observed[p] ELSE 0)
               + (IF p \in DOMAIN counts THEN counts[p] ELSE 0)]

\* The statistics learn from a scan.
StatsAfter(before, port_results, order, fill) ==
    [op |-> "global_stats",
     stats |-> UpdateGlobalStatsWithPorts(before.stats, port_results, order),
     observed |-> Observe(before.observed, port_results),
     fill_scans |-> before.fill_scans + (IF fill THEN 1 ELSE 0),
     free_scans |-> before.free_scans + (IF fill THEN 0 ELSE 1)]

\* learn_from_scan on a scan that found one port open that no scan found
\* before.
StatsFillCall ==
    /\ call.op \in {"none", "idle", "global_stats"}
    /\ StatsLearning.free_scans = 0
    /\ StatsLearning.fill_scans < MaxFillScans
    /\ LET port == FillPort(StatsLearning.fill_scans + 1)
       IN call' = StatsAfter(StatsLearning,
                             <<[port |-> port, is_open |-> TRUE]>>,
                             <<port>>, TRUE)
    /\ OthersUnchanged

\* learn_from_scan on a later scan.
StatsLearnCall ==
    /\ call.op \in {"none", "idle", "global_stats"}
    /\ StatsLearning.free_scans < MaxFreeScans
    /\ \E port_results \in FreeScans :
          \E order \in KeyOrders(DOMAIN PortCounts(port_results)) :
             call' = StatsAfter(StatsLearning, port_results, order, FALSE)
    /\ OthersUnchanged

StatsNext ==
    \/ StatsFillCall
    \/ StatsLearnCall
    \/ CallReturn

---------------------------------------------------------------------------
(* The authentication challenge of the fingerprinter                       *)
(* (src/src/scanner/aggressive_probing.rs 357-424, 850-914). A text is the *)
(* sequence of its words; a text contains another when the words of the    *)
(* other occur in it in a row.                                             *)

\* to_lowercase on the words that hold capitals.
LowerWords ==
    ("Unauthorized" :> "unauthorized") @@ ("WWW-Authenticate" :> "www-authenticate")
        @@ ("Basic" :> "basic") @@ ("Authorization" :> "authorization")
        @@ ("Required" :> "required") @@ ("Bad" :> "bad")
        @@ ("Request" :> "request") @@ ("Invalid" :> "invalid")
        @@ ("Protocol" :> "protocol") @@ ("Permission" :> "permission")
        @@ ("Authentication" :> "authentication") @@ ("Access" :> "access")
        @@ ("Connection" :> "connection") @@ ("Login" :> "login")
        @@ ("User" :> "user") @@ ("Syntax" :> "syntax")
        @@ ("Command" :> "command") @@ ("HTTP/1.1" :> "http/1.1")
        @@ ("OK" :> "ok") @@ ("Not" :> "not") @@ ("Found" :> "found")
        @@ ("Welcome" :> "welcome")
        @@ ("SSH-2.0-OpenSSH_8.9" :> "ssh-2.0-openssh_8.9")
        @@ ("Apache" :> "apache") @@ ("Server:" :> "server:")
        @@ ("OpenSSH" :> "openssh") @@ ("SSH-2.0-" :> "ssh-2.0-")
        @@ ("ErgoTest" :> "ergotest") @@ ("NOTICE" :> "notice")
        @@ ("PRIVMSG" :> "privmsg") @@ ("MODE" :> "mode")
        @@ ("IRC" :> "irc") @@ ("BEP" :> "bep") @@ ("BIND" :> "bind")
        @@ ("AUTH" :> "auth")
ToLowercase(text) ==
    [i \in DOMAIN text |->
        IF text[i] \in DOMAIN LowerWords THEN LowerWords[text[i]]
        ELSE text[i]]

\* str::contains
Contains(text, part) ==
    \E i \in 0..(Len(text) - Len(part)) :
        SubSeq(text, i + 1, i + Len(part)) = part

\* load_auth_probes: the one probe of each protocol.
AuthProbes ==
    [HTTP |->
        [auth_method |-> "BasicAuth",
         service_indicators |->
             <<<<"401", "Unauthorized">>, <<"WWW-Authenticate">>,
               <<"Basic", "realm">>, <<"Authorization", "Required">>>>,
         malformed_indicators |->
             <<<<"400", "Bad", "Request">>, <<"Invalid", "request">>,
               <<"Protocol", "error">>>>],
     SSH |->
        [auth_method |-> "SSH",
         service_indicators |->
             <<<<"Permission", "denied">>, <<"Authentication", "failed">>,
               <<"Access", "denied">>, <<"Invalid", "user">>,
               <<"password:">>>>,
         malformed_indicators |->
             <<<<"Protocol", "mismatch">>, <<"Connection", "closed">>,
               <<"Invalid", "packet">>>>],
     FTP |->
        [auth_method |-> "FTP",
         service_indicators |->
             <<<<"530", "Login", "incorrect">>,
               <<"Authentication", "failed">>, <<"Invalid", "username">>,
               <<"User", "testuser", "unknown">>>>,
         malformed_indicators |->
             <<<<"500", "Syntax", "error">>,
               <<"Command", "not", "understood">>,
               <<"Protocol", "error">>>>]]

\* Whether the lowercased response contains one of the indicators,
\* lowercased.
MatchesAny(response_str, indicators) ==
    \E i \in DOMAIN indicators :
        Contains(response_str, ToLowercase(indicators[i]))

\* probe_authentication, given what the probe of the method read from the
\* target (None when it could not connect, read or write, or ran out of
\* time): the response type, or None.
ProbeAuthentication(auth_probe, read) ==
    IF auth_probe.auth_method \notin {"BasicAuth", "SSH", "FTP"} THEN None
    ELSE IF read = None THEN None
    ELSE LET response_str == ToLowercase(read[1]) IN
         IF MatchesAny(response_str, auth_probe.service_indicators)
         THEN Some("ServiceIdentified")
         ELSE IF MatchesAny(response_str, auth_probe.malformed_indicators)
         THEN Some("ProtocolMismatch")
         ELSE IF \/ Contains(response_str, <<"200">>)
                 \/ Contains(response_str, <<"welcome">>)
                 \/ Contains(response_str, <<"ok">>)
         THEN Some("Bypass")
         ELSE Some("ServiceIdentified")

\* test_authentication for a protocol: the auth probes of the protocol are
\* tried in order; each protocol has one.
AuthStatusAfter(protocol, response_type) ==
    CASE response_type = Some("ServiceIdentified") ->
            [kind |-> "AuthRequired", protocol |-> protocol]
      [] response_type = Some("Bypass") -> [kind |-> "AuthBypass"]
      [] OTHER -> [kind |-> "Unknown"]

AuthOutcome(response_type) ==
    CASE response_type = Some("ServiceIdentified") -> "service_identified"
      [] response_type = Some("Bypass") -> "bypass"
      [] OTHER -> "none"

\* What the targets answer to the probes: HTTP answers, FTP answers, an SSH
\* banner (probe_ssh_auth returns the banner when it holds "SSH").
AuthAnswers ==
    [HTTP |->
        {<<"HTTP/1.1", "401", "Unauthorized", "WWW-Authenticate", "Basic",
           "realm">>,
         <<"HTTP/1.1", "400", "Bad", "Request">>,
         <<"HTTP/1.1", "200", "OK">>,
         <<"HTTP/1.1", "404", "Not", "Found">>,
         <<"HTTP/1.1", "401", "Unauthorized", "Invalid", "request">>,
         <<"SSH-2.0-OpenSSH_8.9">>,
         <<>>},
     SSH |-> {<<"SSH-2.0-OpenSSH_8.9">>},
     FTP |->
        {<<"530", "Login", "incorrect">>,
         <<"500", "Syntax", "error">>,
         <<"230", "Login", "successful">>,
         <<"230", "Welcome">>,
         <<"421", "Service", "not", "available">>,
         <<>>}]

\* guess_protocol for the ports probed; Telnet has no auth probes.
AuthProtocols == (21 :> "FTP") @@ (22 :> "SSH") @@ (23 :> "Telnet")
                     @@ (80 :> "HTTP") @@ (8080 :> "HTTP")
AuthConfidences == {0, 30, 50, 75, 90}

\* test_authentication on a fingerprint of some confidence.
TestAuthenticationCall ==
    /\ NoCallInProgress
    /\ \E port \in DOMAIN AuthProtocols, confidence \in AuthConfidences :
          LET protocol == AuthProtocols[port]
              probed == protocol \in DOMAIN AuthProbes
              st == Assign(UnknownFingerprint, "unknown", confidence)
          IN \E read \in IF probed THEN Optional(AuthAnswers[protocol])
                         ELSE {None} :
                LET response_type ==
                        IF probed
                        THEN ProbeAuthentication(AuthProbes[protocol], read)
                        ELSE None
                IN call' = [op |-> "test_authentication",
                            port |-> port, protocol |-> protocol,
                            read |-> read,
                            response_type |-> response_type,
                            confidence_before |-> confidence,
                            auth_status |->
                                AuthStatusAfter(protocol, response_type),
                            fingerprint |->
                                TestAuthentication(
                                    st, AuthOutcome(response_type))
                                    .fingerprint]
    /\ OthersUnchanged

TestAuthenticationNext ==
    \/ TestAuthenticationCall
    \/ CallReturn

---------------------------------------------------------------------------
(* MLResponseClassifier::classify_response over the pattern map            *)
(* (src/src/scanner/aggressive_probing.rs 1199-1324). A response is the    *)
(* sequence of its words and bytes, a byte written as "0x16"; confidence   *)
(* weights are in hundredths.                                              *)

\* load_response_patterns: the patterns of each protocol, in the order of
\* their Vec.
ProtocolPatterns ==
    [HTTP |->
        <<[name |-> "Apache", byte_patterns |-> <<>>,
           text_patterns |-> <<<<"Apache">>, <<"Server:", "Apache">>>>,
           confidence_weight |-> 90],
          [name |-> "Nginx", byte_patterns |-> <<>>,
           text_patterns |-> <<<<"nginx">>, <<"Server:", "nginx">>>>,
           confidence_weight |-> 90]>>,
     SSH |->
        <<[name |-> "OpenSSH", byte_patterns |-> <<>>,
           text_patterns |-> <<<<"OpenSSH">>, <<"SSH-2.0-", "OpenSSH">>>>,
           confidence_weight |-> 95]>>,
     IRC |->
        <<[name |-> "ErgoIRCd", byte_patterns |-> <<>>,
           text_patterns |-> <<<<"ergo.test">>, <<"ErgoTest">>, <<"001">>,
                               <<"Welcome">>>>,
           confidence_weight |-> 95],
          [name |-> "IRC Server", byte_patterns |-> <<>>,
           text_patterns |-> <<<<"NOTICE">>, <<"PRIVMSG">>, <<"MODE">>,
                               <<"IRC">>>>,
           confidence_weight |-> 85]>>,
     Syncthing |->
        <<[name |-> "Syncthing", byte_patterns |-> <<>>,
           text_patterns |-> <<<<"syncthing">>, <<"BEP">>, <<"device">>,
                               <<"folder">>>>,
           confidence_weight |-> 90]>>,
     DNS |->
        <<[name |-> "BIND DNS",
           byte_patterns |-> <<<<"0x12", "0x34">>, <<"0x81", "0x80">>>>,
           text_patterns |-> <<<<"BIND">>, <<"version">>>>,
           confidence_weight |-> 90],
          [name |-> "DNS Server",
           byte_patterns |-> <<<<"0x81", "0x80">>, <<"0x84", "0x00">>>>,
           text_patterns |-> <<>>,
           confidence_weight |-> 80]>>,
     SSL |->
        <<[name |-> "SSL/TLS Service",
           byte_patterns |-> <<<<"0x16", "0x03">>, <<"0x15", "0x03">>>>,
           text_patterns |-> <<<<"certificate">>, <<"handshake">>>>,
           confidence_weight |-> 85]>>]

\* contains_byte_pattern
ContainsBytePattern(haystack, needle) ==
    IF needle = <<>> \/ Len(haystack) < Len(needle) THEN FALSE
    ELSE Contains(haystack, needle)

\* The body of the loop over the patterns of one protocol: the first
\* pattern with a text pattern or a byte pattern in the response.
RECURSIVE FirstPattern(_, _)
FirstPattern(response, patterns) ==
    IF patterns = <<>> THEN None
    ELSE LET pattern == Head(patterns) IN
         IF \/ MatchesAny(ToLowercase(response), pattern.text_patterns)
            \/ \E i \in DOMAIN pattern.byte_patterns :
                   ContainsBytePattern(response, pattern.byte_patterns[i])
         THEN Some([service |-> pattern.name,
                    confidence |-> pattern.confidence_weight])
         ELSE FirstPattern(response, Tail(patterns))

\* classify_response; order is the order in which protocol_patterns, a
\* HashMap, yields its protocols.
RECURSIVE ClassifyResponse(_, _)
ClassifyResponse(response, order) ==
    IF order = <<>> THEN None
    ELSE LET found == FirstPattern(response, ProtocolPatterns[Head(order)])
         IN IF found # None THEN found
            ELSE ClassifyResponse(response, Tail(order))

\* The order in which load_response_patterns inserts the protocols.
InsertionOrder == <<"HTTP", "SSH", "IRC", "Syncthing", "DNS", "SSL">>

\* Responses classified: texts and bytes that hold a pattern of one
\* protocol, of two, or of none.
ClassifiedResponses ==
    {<<"Server:", "Apache">>,
     <<"Apache", "nginx">>,
     <<"Welcome", "to", "nginx">>,
     <<"Server:", "nginx", "version", "1.18">>,
     <<"SSH-2.0-", "OpenSSH", "_8.9">>,
     <<":", "ergo.test", "001", "Welcome">>,
     <<"NOTICE", "AUTH">>,
     <<"0x16", "0x03", "0x01">>,
     <<"0x81", "0x80">>,
     <<"0x16", "0x03", "certificate", "Apache">>,
     <<"hello">>,
     <<>>}

\* A classifier, whose map yields its protocols in some order, classifies
\* one response and then another.
ClassifyResponseCall ==
    /\ NoCallInProgress
    /\ \E order \in KeyOrders(DOMAIN ProtocolPatterns),
          earlier \in {<<>>, <<"Welcome", "to", "nginx">>},
          response \in ClassifiedResponses :
          call' = [op |-> "classify_response",
                   order |-> order,
                   earlier |-> [response |-> earlier,
                                result |-> ClassifyResponse(earlier, order)],
                   response |-> response,
                   result |-> ClassifyResponse(response, order)]
    /\ OthersUnchanged

ClassifyResponseNext ==
    \/ ClassifyResponseCall
    \/ CallReturn

---------------------------------------------------------------------------
(* Termination of a scan. Scanner::new accepts every usize as              *)
(* parallel_hosts, 0 included; the tokio runtime polls every task that can *)
(* go on, so a step of a task that stays possible is eventually taken.     *)

\* Scanner::new(10, 1000, 0): no host may be scanned at a time.
NoHostsConfig == [rate_limit |-> 10, timeout |-> 1000, parallel_hosts |-> 0]

\* The steps the runtime takes on its own once a scan is running.
TaskStep ==
    \/ \E h \in ScanHosts : HostAcquire(h)
    \/ \E h \in ScanHosts, p \in Ports : PortAcquire(h, p)
    \/ \E h \in ScanHosts, p \in Ports :
          \E o \in ProbeOutcomes(p) : ProbeComplete(h, p, o)
    \/ \E h \in ScanHosts, p \in Ports : PortWake(h, p)
    \/ \E h \in ScanHosts : HostJoin(h)
    \/ \E h \in ScanHosts, d \in Services : HostDetectAndCache(h, d)
    \/ \E h \in ScanHosts : HostLearn(h)
    \/ ScanReturn

LiveNext ==
    \/ Next
    \/ NewScanner(NoHostsConfig)

\* The scan engine with its cache and its store. The scans it runs fall
\* within one second of the cache's clock, so an entry the engine has cached
\* is still valid when a later scan looks it up; expiry is studied under
\* SpecCache, where the clock advances.
Spec == Init /\ [][Next]_vars

\* The cache alone, driven by direct callers; no scanner is constructed.
SpecCache == Init /\ [][CacheNext]_vars

\* The probe step of one port task, started over and over with every input.
SpecProbe == Init /\ [][ProbeNext]_vars

\* One adaptive store and its file, driven by direct callers.
SpecLearn == Init /\ [][LearnNext]_vars

\* Functions studied alone: each specification makes every call of its
\* function on the inputs listed with it.
SpecSmart == Init /\ [][SmartNext]_vars
SpecDetect == Init /\ [][DetectNext]_vars
SpecFingerprint == Init /\ [][FingerprintNext]_vars
SpecParse == Init /\ [][ParseNext]_vars
SpecClassify == Init /\ [][ClassifyNext]_vars
SpecMain == Init /\ [][MainNext]_vars
SpecLearningData == Init /\ [][LearningDataNext]_vars
SpecConnectDispatch == Init /\ [][ConnectDispatchNext]_vars
SpecPortLearn == Init /\ [][PortLearnNext]_vars
SpecStats == Init /\ [][StatsNext]_vars
SpecAuth == Init /\ [][TestAuthenticationNext]_vars
SpecClassifyResponse == Init /\ [][ClassifyResponseNext]_vars

\* One host scanned again and again while the clock advances between the
\* scans.
SpecRescan == Init /\ [][RescanNext]_vars

\* The scan engine under a fair runtime, with a scanner of no parallel
\* hosts among those constructed.
SpecLive == Init /\ [][LiveNext]_vars /\ WF_vars(TaskStep)

---------------------------------------------------------------------------
(* Properties of the cache (checked under SpecCache).                      *)

\* The entry the cache holds for (target, port), as an Option.
EntryOf(c, target, port) ==
    LET host_key == HostKey(target) IN
    IF host_key \in DOMAIN c /\ port \in DOMAIN c[host_key].ports
    THEN Some(c[host_key].ports[port])
    ELSE None

\* C4: get_cached_result returns a result only for an entry that is held,
\* was cached with the requested scan type, and whose age is below the TTL;
\* for an entry of age TTL or more it returns None, whatever cache_result,
\* clear_target and clear_all calls came before.
C4_ExpiredNeverReturned ==
    \A h \in Hosts, p \in Ports :
        LET entry == EntryOf(cache, h, p) IN
        \A t \in ScanType :
            LET got == GetCachedResult(cache, h, p, t, now)
            IN /\ got # None =>
                    /\ entry # None
                    /\ now - entry[1].timestamp < CacheTtlSeconds
                    /\ got[1].status = entry[1].status
               /\ (entry # None
                     /\ now - entry[1].timestamp >= CacheTtlSeconds)
                    => got = None

\* C4 witness: an entry has reached the TTL exactly, and another lookup of a
\* fresh entry succeeds.
C4_Witness ==
    /\ \E h \in Hosts, p \in Ports :
          /\ EntryOf(cache, h, p) # None
          /\ now - EntryOf(cache, h, p)[1].timestamp = CacheTtlSeconds
          /\ GetCachedResult(cache, h, p,
                             EntryOf(cache, h, p)[1].scan_type, now) = None
    /\ \E h \in Hosts, p \in Ports, t \in ScanType :
          GetCachedResult(cache, h, p, t, now) # None

\* C5 (as claimed): caching a result for one scan type on a (host, port)
\* leaves the result cached for another scan type on that (host, port) in
\* place: a lookup that succeeded before the call returns the same after it.
C5_PerTechniqueMemo ==
    [][\A h \in Hosts, p \in Ports, t \in CallScanTypes :
          LET before == GetCachedResult(cache, h, p, t, now) IN
          (/\ before # None
           /\ cacheOps' = cacheOps + 1
           /\ lastCall'.op = "cache_result"
           /\ lastCall'.target = h
           /\ lastCall'.port = p
           /\ lastCall'.scan_type # t
           /\ lastCall'.evicted = {})
          => GetCachedResult(cache', h, p, t, now') = before]_vars

\* C6: the cache never holds more than max_entries hosts once cache_result
\* has returned.
C6_CacheBounded == Cardinality(DOMAIN cache) <= MaxEntries

\* C6 witness: a cache_result call found the cache over capacity and evicted
\* a host, leaving the cache full.
C6_Witness ==
    /\ lastCall.op = "cache_result"
    /\ lastCall.evicted # {}
    /\ Cardinality(DOMAIN cache) = MaxEntries

---------------------------------------------------------------------------
(* Properties of the scan engine and its store (checked under Spec).       *)

\* Every adaptive store there is: the one on file, the scanner's own and the
\* clones of the host tasks.
AllStores ==
    (IF file # None THEN {file[1]} ELSE {})
        \cup (IF scanner # None THEN {scanner[1].adaptive_learning} ELSE {})
        \cup {hostTasks[h].store : h \in {t \in ScanHosts :
                                             hostTasks[t].pc # "none"}}

\* The network profiles (one per network type) of every store.
AllProfiles ==
    UNION {{st.network_profiles[k] : k \in DOMAIN st.network_profiles} :
              st \in AllStores}

RECURSIVE SumOver(_, _)
SumOver(f, S) ==
    IF S = {} THEN 0
    ELSE LET x == CHOOSE y \in S : TRUE IN f[x] + SumOver(f, S \ {x})

\* C1 (as claimed): when the host tasks of a scan have all completed and the
\* scan has returned its result, the store on file reflects the learn update
\* of each of them: total_scans counts every completed host scan and every
\* scanned host has its host intelligence on file.
C1_StoreReflectsAllHostScans ==
    (scans = 1 /\ scan.pc = "returned" /\ scan.result.ok) =>
        /\ file # None
        /\ file[1].global_stats.total_scans = SumOver(learned, ScanHosts)
        /\ \A h \in scan.targets :
              HostKey(h) \in DOMAIN file[1].host_intelligence

\* C2 (as claimed): every network profile of every store has its
\* optimal_parallelism in [1, 100].
C2_ParallelismInRange ==
    \A pr \in AllProfiles :
        pr.optimal_parallelism >= 1 /\ pr.optimal_parallelism <= 100

\* C3: every network profile held in the network_profiles map of a store
\* (the one on file, the scanner's own, a host task's clone) has an
\* optimal_rate_limit of at least 10 ms, whatever rate limit the scanner was
\* constructed with.
C3_RateLimitFloor ==
    \A pr \in AllProfiles : pr.optimal_rate_limit >= 10

\* C3 witness: a host scan that ran with an effective rate limit below 10 ms
\* has learnt, and the profile of its network type is on file.
C3_Witness ==
    \E h \in ScanHosts :
        /\ hostTasks[h].pc = "done"
        /\ hostTasks[h].eff.rate_limit < 10
        /\ file # None
        /\ ClassifyNetwork(h) \in DOMAIN file[1].network_profiles
        /\ file[1].network_profiles[ClassifyNetwork(h)].scan_count = 1

\* Host tasks that hold a permit of host_semaphore. Their effective
\* parameters are set, and their store is still the clone they derived them
\* from.
HostsInFlight == {h \in ScanHosts : hostTasks[h].pc \in {"scanning", "joined"}}

\* C7: while a scan runs, the host tasks that hold a permit of the host
\* semaphore are at most parallel_hosts, and every permit not held by a host
\* task in flight is back in the semaphore.
C7_HostPermits ==
    scan.pc = "running" =>
        /\ Cardinality(HostsInFlight) <= scanner[1].parallel_hosts
        /\ hostPermits =
              scanner[1].parallel_hosts - Cardinality(HostsInFlight)

\* C7 witness: with one permit, a host scan has ended and released it and
\* the next host task holds it.
C7_Witness ==
    /\ scan.pc = "running"
    /\ scanner[1].parallel_hosts = 1
    /\ \E h \in ScanHosts : hostTasks[h].pc = "done"
    /\ \E h \in ScanHosts : hostTasks[h].pc = "scanning"

\* Port tasks of a host by their place in the task body.
PortsAt(h, pcs) == {p \in Ports : portTasks[<<h, p>>].pc \in pcs}

\* C8: within a host scan the probes in flight are at most the effective
\* parallelism, and a port task is in its probe (or in the sleep after it)
\* only while it holds a permit of the host's port semaphore.
C8_PortPermits ==
    \A h \in ScanHosts :
        hostTasks[h].pc = "scanning" =>
            /\ Cardinality(PortsAt(h, {"probing"}))
                  <= hostTasks[h].eff.parallelism
            /\ hostTasks[h].permits =
                  hostTasks[h].eff.parallelism
                      - Cardinality(PortsAt(h, {"probing", "sleeping"}))

\* C8 witness: with an effective parallelism of 1, one port task probes
\* while the other waits for the permit.
C8_Witness ==
    \E h \in ScanHosts :
        /\ hostTasks[h].pc = "scanning"
        /\ hostTasks[h].eff.parallelism = 1
        /\ PortsAt(h, {"probing"}) # {}
        /\ PortsAt(h, {"waiting"}) # {}

\* C9 (as claimed, for the timeout): the effective timeout of a host scan is
\* the configured timeout when that differs from the sentinel, and otherwise
\* the timeout get_optimal_params returns for the target.
C9_TimeoutAsClaimed ==
    \A h \in HostsInFlight :
        hostTasks[h].eff.timeout =
            IF scanner[1].timeout # 1000
            THEN scanner[1].timeout
            ELSE GetOptimalParams(hostTasks[h].store, h).timeout

\* The value the amended C9 gives for one parameter.
C9_Expected(configured, sentinel, recommended) ==
    IF configured # sentinel THEN configured
    ELSE IF recommended > 0 THEN recommended
    ELSE configured

\* C9 (amended): for each of timeout, rate limit and parallelism the
\* effective value is the configured one when that differs from its sentinel
\* (1000, 10, 50); otherwise it is the value get_optimal_params returns when
\* that value is greater than 0, and the configured value when it is 0.
C9_EffectiveParams ==
    \A h \in HostsInFlight :
        LET optimal == GetOptimalParams(hostTasks[h].store, h)
            sc == scanner[1]
        IN /\ hostTasks[h].eff.timeout =
                 C9_Expected(sc.timeout, 1000, optimal.timeout)
           /\ hostTasks[h].eff.rate_limit =
                 C9_Expected(sc.rate_limit, 10, optimal.rate_limit)
           /\ hostTasks[h].eff.parallelism =
                 C9_Expected(sc.parallel_hosts, 50, optimal.parallelism)

\* C9 witness: a scanner built with the sentinels scans a host whose learnt
\* profile recommends a timeout of 0 ms, and the host scan runs with the
\* configured timeout and the recommended rate limit and parallelism.
C9_Witness ==
    \E h \in HostsInFlight :
        LET optimal == GetOptimalParams(hostTasks[h].store, h) IN
        /\ scanner[1].timeout = 1000
        /\ scanner[1].rate_limit = 10
        /\ scanner[1].parallel_hosts = 50
        /\ ClassifyNetwork(h) \in DOMAIN hostTasks[h].store.network_profiles
        /\ optimal.timeout = 0
        /\ hostTasks[h].eff.timeout = 1000
        /\ hostTasks[h].eff.rate_limit = optimal.rate_limit
        /\ hostTasks[h].eff.parallelism = optimal.parallelism

\* C10 (as claimed): when a scan has returned, it has returned a result that
\* holds the ScanResult of every host task that completed, whatever became
\* of the other tasks.
C10_SiblingsUnaffected ==
    (scan.pc = "returned" /\ DOMAIN scan.completed # {}) =>
        /\ scan.result.ok
        /\ \A h \in DOMAIN scan.completed :
              /\ h \in DOMAIN scan.result.hosts
              /\ scan.result.hosts[h] = scan.completed[h]

\* C11: a scan that has returned a result holds, for every target, one port
\* result per requested port, in the order of the port list and each with
\* its own port number, whether it was probed or read from the cache;
\* total_hosts is the number of targets and total_ports that of the ports.
C11_OneResultPerPort ==
    (scan.pc = "returned" /\ scan.result.ok) =>
        /\ DOMAIN scan.result.hosts = scan.targets
        /\ scan.result.total_hosts = Cardinality(scan.targets)
        /\ scan.result.total_ports = Len(scan.port_list)
        /\ \A h \in scan.targets :
              /\ Len(scan.result.hosts[h]) = Len(scan.port_list)
              /\ \A i \in DOMAIN scan.port_list :
                    scan.result.hosts[h][i].port = scan.port_list[i]

\* C11 witness: a scan of two hosts has returned its result, in which one
\* port result was read from the cache (an open port with no time spent) and
\* another was probed.
C11_Witness ==
    /\ scan.pc = "returned"
    /\ scan.result.ok
    /\ Cardinality(scan.targets) = 2
    /\ \E h \in scan.targets : \E i \in DOMAIN scan.result.hosts[h] :
          /\ scan.result.hosts[h][i].status = "Open"
          /\ scan.result.hosts[h][i].response_time = Some(0)
    /\ \E h \in scan.targets : \E i \in DOMAIN scan.result.hosts[h] :
          /\ scan.result.hosts[h][i].status = "Open"
          /\ scan.result.hosts[h][i].response_time # Some(0)

\* C19 (as claimed): when a scan has returned its result, the scanner's own
\* store holds the host intelligence of every host of that scan.
C19_OwnerStoreUpdated ==
    (scan.pc = "returned" /\ scan.result.ok) =>
        \A h \in scan.targets :
            HostKey(h) \in DOMAIN scanner[1].adaptive_learning.host_intelligence

(***************************************************************************)
(* The probe primitives.                                                   *)
(***************************************************************************)

\* The status a returned probe reports.
ProbeStatus == probe.result[1].status

\* A privileged SYN scan that sent its segment and has returned.
SynRawReturned ==
    /\ probe.pc = "returned"
    /\ probe.scan_type = "Syn"
    /\ probe.root
    /\ probe.sent

\* C12: a SYN scan with raw-socket privilege never reports Open from a
\* timeout: it returns Open only on a reply matching the probe with SYN and
\* ACK set, received before the listening loop ran out of time; a matching
\* reply with RST (and not SYN+ACK) gives Closed; when the loop runs out of
\* time with no deciding reply the status is Filtered.
C12_SynNeverOpenFromTimeout ==
    SynRawReturned =>
        /\ ProbeStatus \in {"Open", "Closed", "Filtered"}
        /\ ProbeStatus = "Open" =>
              /\ ~probe.timed_out
              /\ probe.reply # None
              /\ {"SYN", "ACK"} \subseteq probe.reply[1]
        /\ (/\ probe.reply # None
            /\ "RST" \in probe.reply[1]
            /\ ~({"SYN", "ACK"} \subseteq probe.reply[1])) =>
              ProbeStatus = "Closed"
        /\ probe.timed_out <=> ProbeStatus = "Filtered"
        /\ probe.timed_out => probe.reply = None

\* A privileged SYN scan passed over a segment, then ran out of time and
\* reported Filtered.
C12_Witness ==
    /\ SynRawReturned
    /\ probe.timed_out
    /\ probe.packets = 1
    /\ ProbeStatus = "Filtered"

C14_ConnectScanStatuses ==
    (probe.pc = "returned" /\ probe.primitive = "connect") =>
        /\ Len(probe.attempts) = 1
        /\ probe.attempts[1].limit = probe.timeout_ms
        /\ LET outcome == probe.attempts[1].outcome
           IN /\ ProbeStatus = "Open" <=> outcome = "connected"
              /\ ProbeStatus = "Closed" <=> outcome = "refused"
              /\ ProbeStatus = "Filtered" <=>
                    outcome \in {"unreachable", "elapsed"}
        /\ ProbeStatus # "Error"

\* A Connect scan of a public target that never answered returned Filtered.
C14_Witness ==
    /\ probe.pc = "returned"
    /\ probe.scan_type = "Connect"
    /\ probe.primitive = "connect"
    /\ probe.attempts = <<[limit |-> 1000, outcome |-> "elapsed"]>>
    /\ ProbeStatus = "Filtered"
    /\ probe.result[1].is_filtered

\* The time limits of the attempts made so far.
RECURSIVE LimitsIn(_)
LimitsIn(attempts) ==
    IF attempts = <<>> THEN 0
    ELSE Head(attempts).limit + LimitsIn(Tail(attempts))

\* C15: fast_connect_scan keeps within timeout_ms: the first attempt is
\* limited to min(timeout_ms, 300), at most two attempts are made, and the
\* limits of the attempts, the one in progress included, add up to at most
\* timeout_ms.
C15_FastConnectBudget ==
    probe.primitive = "fast_connect" =>
        /\ Len(probe.attempts) <= 2
        /\ probe.attempts # <<>> =>
              probe.attempts[1].limit = Min(probe.timeout_ms, 300)
        /\ LimitsIn(probe.attempts)
              + (IF probe.pc = "connecting" THEN probe.limit ELSE 0)
                 <= probe.timeout_ms

\* The probe ended without any response: the last connection attempt ran
\* out of time, or the listening loop of the raw scan did.
NoResponse ==
    \/ /\ probe.attempts # <<>>
       /\ probe.attempts[Len(probe.attempts)].outcome = "elapsed"
    \/ probe.timed_out

\* C18: a port result whose probe received no response within the timeout
\* carries no response time.
C18_NoResponseNoTime ==
    (probe.pc = "returned" /\ NoResponse) =>
        probe.result[1].response_time = None

(***************************************************************************)
(* The adaptive store, called directly.                                    *)
(***************************************************************************)

\* The last call was learn_from_scan on a store that already held the
\* profile of the data's network type.
LearntOnProfile ==
    /\ learner.last.op = "learn"
    /\ learner.last.data.network_type
          \in DOMAIN learner.last.before.network_profiles

\* C16: learn adjusts the optimal parallelism and rate limit of an existing
\* network profile by 10%: for scan_performance > 0.8 the parallelism
\* becomes 110% of its previous value, at most 100, and the rate limit 90%,
\* at least 10; for scan_performance < 0.5 the parallelism becomes 90%, at
\* least 1, and the rate limit 110%; otherwise both stay as they were.
C16_TenPercentAdjustment ==
    LearntOnProfile =>
        LET key == learner.last.data.network_type
            perf == learner.last.data.scan_performance
            prev == learner.last.before.network_profiles[key]
            next == learner.store.network_profiles[key]
        IN /\ perf > 800 =>
                 /\ next.optimal_parallelism =
                        Min((prev.optimal_parallelism * 11) \div 10, 100)
                 /\ next.optimal_rate_limit =
                        Max((prev.optimal_rate_limit * 9) \div 10, 10)
           /\ perf < 500 =>
                 /\ next.optimal_parallelism =
                        Max((prev.optimal_parallelism * 9) \div 10, 1)
                 /\ next.optimal_rate_limit =
                        (prev.optimal_rate_limit * 11) \div 10
           /\ (perf >= 500 /\ perf <= 800) =>
                 /\ next.optimal_parallelism = prev.optimal_parallelism
                 /\ next.optimal_rate_limit = prev.optimal_rate_limit

\* C17: get_optimal_params(ip) returns, when the store holds the profile of
\* classify_network(ip), the profile's rate limit and parallelism and the
\* whole milliseconds of 3 x its avg_response_time as timeout; when it holds
\* none, the defaults of the network type (LocalHost 200 / 10 / 100,
\* PrivateLAN 500 / 50 / 50, PublicInternet 2000 / 200 / 20, CloudProvider
\* 1000 / 100 / 30). The store is left as it was.
C17_Recommend ==
    learner.last.op = "recommend" =>
        LET ip == learner.last.target
            result == learner.last.result
            network_type ==
                CASE ip = Localhost -> "LocalHost"
                  [] ip = LanHost -> "PrivateLAN"
                  [] ip = PublicHost -> "PublicInternet"
                  [] ip = <<13, 1, 1, 1>> -> "CloudProvider"
            profiles == learner.last.before.network_profiles
        IN /\ learner.store = learner.last.before
           /\ result.network_type = network_type
           /\ network_type \in DOMAIN profiles =>
                 /\ result.timeout * 1000
                        <= 3 * profiles[network_type].avg_response_time
                 /\ 3 * profiles[network_type].avg_response_time
                        < (result.timeout + 1) * 1000
                 /\ result.rate_limit =
                        profiles[network_type].optimal_rate_limit
                 /\ result.parallelism =
                        profiles[network_type].optimal_parallelism
           /\ network_type \notin DOMAIN profiles =>
                 <<result.timeout, result.rate_limit, result.parallelism>> =
                    CASE network_type = "LocalHost" -> <<200, 10, 100>>
                      [] network_type = "PrivateLAN" -> <<500, 50, 50>>
                      [] network_type = "PublicInternet" -> <<2000, 200, 20>>
                      [] network_type = "CloudProvider" -> <<1000, 100, 30>>

\* get_optimal_params answered from a learnt profile of the public
\* Internet: 3 x 35 ms, and the rate limit and parallelism learnt from a
\* scan with rate limit 5 and parallelism 200.
C17_Witness ==
    /\ learner.last.op = "recommend"
    /\ learner.last.target = PublicHost
    /\ "PublicInternet" \in DOMAIN learner.store.network_profiles
    /\ learner.last.result.timeout = 105
    /\ learner.last.result.rate_limit = 10
    /\ learner.last.result.parallelism = 100

C21_StoreIoFailuresAbsorbed ==
    /\ (/\ learner.last.op = "load"
        /\ (learner.disk = None \/ learner.condition # "ok")) =>
          /\ learner.loaded # None
          /\ DOMAIN learner.loaded[1].port_intelligence # {}
          /\ DOMAIN learner.loaded[1].network_profiles = {}
          /\ DOMAIN learner.loaded[1].host_intelligence = {}
          /\ learner.loaded[1].global_stats.total_scans = 0
    /\ (learner.last.op = "learn" /\ learner.save_failed) =>
          /\ learner.store.global_stats.total_scans =
                learner.last.before.global_stats.total_scans + 1
          /\ learner.last.data.network_type
                \in DOMAIN learner.store.network_profiles
          /\ learner.store # learner.last.before

\* A store that had learnt a scan and saved it found its file corrupted on
\* the next construction and started from the default store.
C21_Witness ==
    /\ learner.last.op = "load"
    /\ learner.learns >= 1
    /\ learner.disk # None
    /\ learner.condition = "corrupt"
    /\ learner.store.global_stats.total_scans >= 1
    /\ learner.loaded[1].global_stats.total_scans = 0

(***************************************************************************)
(* Functions studied alone.                                                *)
(***************************************************************************)

\* The score get_smart_port_list gave each port of the store it was called
\* on.
SmartScores ==
    LET scored == {<<call.entries[i].port,
                     PortScore(call.entries[i], call.network_type,
                               call.clock)>> : i \in 1..Len(call.entries)}
    IN [p \in {pair[1] : pair \in scored} |->
           (CHOOSE pair \in scored : pair[1] = p)[2]]

\* C22: get_smart_port_list returns at most 100 ports of the store, none
\* twice, in descending order of score, and no port it leaves out scores
\* higher than one it returns; it leaves none out while it has fewer
\* than 100.
C22_SmartPortList ==
    call.op = "smart_port_list" =>
        LET ports == call.ports
            returned == {ports[i] : i \in 1..Len(ports)}
            omitted == DOMAIN SmartScores \ returned
        IN /\ Len(ports) <= 100
           /\ Len(ports) = Min(Len(call.entries), 100)
           /\ returned \subseteq DOMAIN SmartScores
           /\ Cardinality(returned) = Len(ports)
           /\ \A i \in 1..(Len(ports) - 1) :
                 SmartScores[ports[i]] >= SmartScores[ports[i + 1]]
           /\ \A q \in omitted : \A r \in returned :
                 SmartScores[q] <= SmartScores[r]

\* A store of 104 ports with rising success rates and mixed last_seen: four
\* ports are left out, and the scores of the list are not all equal.
C22_Witness ==
    /\ call.op = "smart_port_list"
    /\ Len(call.entries) = 104
    /\ Len(call.ports) = 100
    /\ SmartScores[call.ports[1]] > SmartScores[call.ports[100]]
    /\ SmartScores[call.ports[100]] > 0

\* The probe tasks of the call that classified.
Classified ==
    {i \in DOMAIN call.probe_results :
        call.probe_results[i].joined /\ call.probe_results[i].result # None}

\* C23: detect_service_parallel returns the classification of highest
\* confidence among the probes that classified, that of the detector
\* declared first when several share the highest confidence, and nothing
\* when no probe classified.
C23_FirstDeclaredWinsTies ==
    call.op = "detect_service_parallel" =>
        IF Classified = {} THEN call.service = None
        ELSE LET detection(i) == call.probe_results[i].result[1]
                 top == CHOOSE i \in Classified :
                           \A j \in Classified :
                              \/ detection(i).confidence
                                    > detection(j).confidence
                              \/ /\ detection(i).confidence
                                       = detection(j).confidence
                                 /\ i <= j
             IN call.service =
                   Some([name |-> detection(top).service_name,
                         version |-> detection(top).version,
                         confidence |-> detection(top).confidence])

\* C24: the fingerprint aggressively_probe_service returns carries the
\* highest confidence any phase that ran produced (no later phase or
\* special case replaces a result with one of lower confidence), and the
\* confidence lies within [0, 1].
C24_CarriesMaximumConfidence ==
    call.op = "aggressively_probe_service" =>
        /\ call.fingerprint.confidence \in 0..100
        /\ \A i \in DOMAIN call.produced :
              call.produced[i] <= call.fingerprint.confidence

\* The range atoms of the call whose two ends are IPv4 addresses.
Ipv4Ranges ==
    {i \in DOMAIN call.target_spec :
        /\ call.target_spec[i].kind = "range"
        /\ call.target_spec[i].start.family = "v4"
        /\ call.target_spec[i].end.family = "v4"}

\* The number of addresses from the start of a range atom to its end,
\* both included (capped above the limit).
AddressesSpanned(atom) ==
    U32Sub(U32From(atom.end.ip), U32From(atom.start.ip)) + 1

\* C25: parse_targets fails on every IPv4 range atom of more than 10,000
\* addresses, on every range whose start is above its end and on every
\* range with ends of different families; a range of at most 10,000
\* addresses on its own is accepted and yields every address from start
\* to end; a failing atom fails the whole parse.
C25_RangeLimit ==
    call.op = "parse_targets" =>
        /\ \A i \in DOMAIN call.target_spec :
              LET atom == call.target_spec[i]
              IN atom.kind = "range" =>
                    /\ atom.start.family # atom.end.family
                          => ~call.result.ok
                    /\ i \in Ipv4Ranges =>
                          /\ U32Greater(U32From(atom.start.ip),
                                        U32From(atom.end.ip))
                                => ~call.result.ok
                          /\ ~U32Greater(U32From(atom.start.ip),
                                         U32From(atom.end.ip))
                                /\ AddressesSpanned(atom) > MaxRangeSpan
                                => ~call.result.ok
        /\ \A i \in DOMAIN call.target_spec :
              ~ParsePart(call.target_spec[i]).ok => ~call.result.ok
        /\ Len(call.target_spec) = 1 /\ Ipv4Ranges = {1}
              /\ ~U32Greater(U32From(call.target_spec[1].start.ip),
                             U32From(call.target_spec[1].end.ip))
              /\ AddressesSpanned(call.target_spec[1]) <= MaxRangeSpan
              => /\ call.result.ok
                 /\ Cardinality(call.result.value)
                       = AddressesSpanned(call.target_spec[1])
                 /\ call.target_spec[1].start.ip \in call.result.value
                 /\ call.target_spec[1].end.ip \in call.result.value

\* The address of the call is an IPv4 or IPv6 loopback address.
IsLoopbackAddress ==
    IF call.ip.family = "v4" THEN call.ip.ip[1] = 127
    ELSE call.ip.segments = <<0, 0, 0, 0, 0, 0, 0, 1>>

\* The address of the call lies in 10.0.0.0/8, 172.16.0.0/12 or
\* 192.168.0.0/16.
IsRfc1918Address ==
    /\ call.ip.family = "v4"
    /\ LET high == call.ip.ip[1] * 256 + call.ip.ip[2]
       IN \/ high \div 256 = 10
          \/ high \div 16 = (172 * 256 + 16) \div 16
          \/ high = 192 * 256 + 168

\* The address of the call is in the cloud approximation table.
IsCloudTableAddress ==
    call.ip.family = "v4" /\ IsCloudProviderIp(call.ip.ip)

\* The address of the call is an IPv6 address whose first segment is fe80
\* or which lies in fc00::/7.
IsPrivateIpv6Address ==
    /\ call.ip.family = "v6"
    /\ call.ip.segments[1] \in {65152} \cup 64512..65023

\* C26 as stated: loopback addresses map to Localhost, RFC1918 addresses to
\* PrivateLAN, addresses of the cloud table to Cloud, and every other
\* address to PublicInternet.
C26_EveryOtherAddressPublic ==
    call.op = "classify_network" =>
        call.network_type =
            IF IsLoopbackAddress THEN "LocalHost"
            ELSE IF IsRfc1918Address THEN "PrivateLAN"
            ELSE IF IsCloudTableAddress THEN "CloudProvider"
            ELSE "PublicInternet"

\* C26, amended: classify_network maps every address to exactly one of the
\* four network types: loopback addresses to Localhost, RFC1918 addresses
\* and the IPv6 addresses with first segment fe80 or in fc00::/7 to
\* PrivateLAN, addresses of the cloud table to Cloud, and every other
\* address to PublicInternet.
C26_ClassifyNetworkTotal ==
    call.op = "classify_network" =>
        /\ call.network_type \in NetworkTypes
        /\ call.network_type = ClassifyIpAddr(call.ip)
        /\ call.network_type =
              IF IsLoopbackAddress THEN "LocalHost"
              ELSE IF IsRfc1918Address \/ IsPrivateIpv6Address
              THEN "PrivateLAN"
              ELSE IF IsCloudTableAddress THEN "CloudProvider"
              ELSE "PublicInternet"

\* A unique-local IPv6 address has been classified as PrivateLAN.
C26_Witness ==
    /\ call.op = "classify_network"
    /\ call.ip.family = "v6"
    /\ call.ip.segments[1] = 64768
    /\ call.network_type = "PrivateLAN"

\* C27: when the program is run without --timeout, --rate-limit or
\* --parallel-hosts, the effective timeout, rate limit or parallelism of a
\* host scan is the adaptive recommendation for the target.
C27_OmittedOptionIsAdaptive ==
    call.op = "main" =>
        /\ call.cli.timeout = None
              => call.effective.timeout = call.optimal_params.timeout
        /\ call.cli.rate_limit = None
              => call.effective.rate_limit = call.optimal_params.rate_limit
        /\ call.cli.parallel_hosts = None
              => call.effective.parallelism
                    = call.optimal_params.parallelism

---------------------------------------------------------------------------
(* Properties of a host scanned repeatedly (checked under SpecRescan).     *)

\* C28: every port status a scan returns from the cache was produced by a
\* probe no more than the TTL earlier; serving a result from the cache and
\* writing it back at the end of the scan does not extend its lifetime.
C28_CachedStatusWithinTtlOfProbe ==
    call.op = "rescan" =>
        \A p \in Range(RescanPortList) :
            call.port_results[p] # None /\ call.port_results[p][1].from_cache
                => /\ call.probed_at[p] # None
                   /\ call.port_results[p][1].at - call.probed_at[p][1]
                         <= CacheTtlSeconds

---------------------------------------------------------------------------
(* Properties of the order of a host scan (checked under Spec).            *)

\* The port results of host h are all in the cache as the host task holds
\* them.
AllResultsCached(h) ==
    /\ Len(hostTasks[h].results) = Len(scan.port_list)
    /\ \A i \in DOMAIN hostTasks[h].results :
          LET r == hostTasks[h].results[i]
          IN GetCachedResult(cache, h, r.port, scan.scan_type, now)
                = Some([status |-> r.status, service |-> r.service_detected])

\* The store new is the store old after one learn about host h: each of
\* the four parts has been updated.
FourUpdatesApplied(old, new, h) ==
    /\ new.global_stats.total_scans = old.global_stats.total_scans + 1
    /\ HostKey(h) \in DOMAIN new.host_intelligence
    /\ ClassifyNetwork(h) \in DOMAIN new.network_profiles
    /\ new.network_profiles[ClassifyNetwork(h)].scan_count
          = 1 + (IF ClassifyNetwork(h) \in DOMAIN old.network_profiles
                 THEN old.network_profiles[ClassifyNetwork(h)].scan_count
                 ELSE 0)
    /\ \A p \in Range(scan.port_list) : p \in DOMAIN new.port_intelligence

\* C29: a host scan that completes invokes learn exactly once, and learn
\* runs only after all port tasks of the host have ended and all its port
\* results are in the cache; the call applies the four updates together
\* and writes the store to the file once.
C29_LearnOnceAfterCaching ==
    [][/\ \A h \in ScanHosts :
             /\ learned'[h] \in {learned[h], learned[h] + 1}
             /\ (hostTasks[h].pc # "done" /\ hostTasks'[h].pc = "done")
                   <=> learned'[h] = learned[h] + 1
             /\ learned'[h] = learned[h] + 1 =>
                   /\ hostTasks[h].pc = "joined"
                   /\ \A p \in Ports :
                         portTasks[<<h, p>>].pc
                            \notin {"waiting", "probing", "sleeping"}
                   /\ AllResultsCached(h)
                   /\ FourUpdatesApplied(hostTasks[h].store,
                                         hostTasks'[h].store, h)
                   /\ file' = Some(hostTasks'[h].store)
       /\ file' # file =>
             Cardinality({h \in ScanHosts : learned'[h] # learned[h]}) = 1
      ]_vars

\* A host scan of two ports has completed and has learnt once.
C29_Witness ==
    \E h \in ScanHosts :
        /\ scan.pc = "running"
        /\ hostTasks[h].pc = "done"
        /\ Len(hostTasks[h].results) = 2
        /\ learned[h] = 1
        /\ file # None
        /\ file[1].global_stats.total_scans = 1

\* The valid cache entry of port p of host h for the technique of the
\* scan, if there is one.
CachedFor(h, p) == GetCachedResult(cache, h, p, scan.scan_type, now)

\* C30: the task of a port with a valid cache entry for the requested
\* technique returns the cached status and service without a probe and
\* without the rate-limit sleep; the task of every other port runs one
\* probe, then sleeps for the effective rate limit, and only then releases
\* its permit.
C30_CacheHitSkipsProbeAndSleep ==
    [][\A h \in ScanHosts, p \in Ports :
          LET task == portTasks[<<h, p>>]
              after == portTasks'[<<h, p>>]
          IN /\ task.pc = "waiting" /\ after.pc # "waiting" =>
                   IF CachedFor(h, p) # None
                   THEN /\ after.pc = "done"
                        /\ after.result[1].status = CachedFor(h, p)[1].status
                        /\ after.result[1].service_detected
                              = CachedFor(h, p)[1].service
                        /\ hostTasks'[h].permits = hostTasks[h].permits
                   ELSE /\ after.pc = "probing"
                        /\ hostTasks'[h].permits = hostTasks[h].permits - 1
             /\ after.pc = "probing" => task.pc \in {"waiting", "probing"}
             /\ task.pc = "probing" /\ after.pc \notin {"probing", "failed"}
                   => /\ after.pc = IF hostTasks[h].eff.rate_limit > 0
                                    THEN "sleeping" ELSE "done"
                      /\ after.result # None
                      /\ after.pc = "sleeping"
                            => hostTasks'[h].permits = hostTasks[h].permits
             /\ after.pc = "sleeping" => task.pc \in {"probing", "sleeping"}
             /\ task.pc = "sleeping" /\ after.pc # "sleeping"
                   => /\ after.pc = "done"
                      /\ after.result = task.result
                      /\ hostTasks'[h].permits = hostTasks[h].permits + 1
      ]_vars

\* In a second scan the task of port 22 of a host scanned before has
\* returned the open status and the service from the cache, while the
\* task of port 22 of a host not scanned before has probed and sleeps.
C30_Witness ==
    /\ scans = 2
    /\ scan.pc = "running"
    /\ portTasks[<<Localhost, 22>>].pc = "done"
    /\ portTasks[<<Localhost, 22>>].result[1].status = "Open"
    /\ portTasks[<<Localhost, 22>>].result[1].service_detected = Some("ssh")
    /\ portTasks[<<LanHost, 22>>].pc = "sleeping"

---------------------------------------------------------------------------
(* Termination (checked under SpecLive).                                   *)

\* C31: every scan invocation eventually returns, a result or an error,
\* for every rate_limit, timeout and parallel_hosts the constructor
\* accepts.
C31_ScanEventuallyReturns ==
    (scan.pc = "running") ~> (scan.pc = "returned")

\* The ports of the call whose result came from a probe.
ProbedPorts == {p \in Ports : ~call.sources[p].from_cache}

\* The sum of the response times the probes of the call measured, in
\* milliseconds.
RECURSIVE MeasuredSum(_)
MeasuredSum(ports) ==
    IF ports = {} THEN 0
    ELSE LET p == CHOOSE q \in ports : TRUE
         IN call.sources[p].outcome.elapsed + MeasuredSum(ports \ {p})

\* C32: the avg_response_time handed to learn is the mean of the response
\* times the probes of the scan measured; a result served from the cache
\* contributes no measurement, and a scan answered entirely from the cache
\* does not move the learned average response time.
C32_AverageOfProbesOnly ==
    call.op = "learning_data" =>
        /\ ProbedPorts # {} =>
              call.avg_response_time
                 = (MeasuredSum(ProbedPorts) * 1000)
                       \div Cardinality(ProbedPorts)
        /\ ProbedPorts = {} /\ call.profile_before # None =>
              call.profile_after.avg_response_time
                 = call.profile_before[1].avg_response_time

\* C33: a fast_connect_scan that has returned classifies as connect_scan
\* does: Open only when a connection attempt succeeded, Closed only when an
\* attempt was explicitly refused, Filtered when its attempts ended in any
\* other error or ran out of time; so when the network answers every attempt
\* in the same way the status is the one connect_scan gives to that answer.
C33_FastConnectClassifiesAsConnect ==
    (probe.pc = "returned" /\ probe.primitive = "fast_connect") =>
        LET attempts == probe.attempts
            last == attempts[Len(attempts)].outcome
            status == probe.result[1].status
        IN /\ status = "Open" => last = "connected"
           /\ status = "Closed" => last = "refused"
           /\ last \in {"unreachable", "elapsed"} => status = "Filtered"
           /\ (\A i \in DOMAIN attempts : attempts[i].outcome = last)
                 => status = ConnectStatus(last)

\* C34: a Connect scan uses fast_connect_scan exactly for the targets that
\* classify_network maps to LocalHost or PrivateLAN and connect_scan for
\* every other target, IPv4 and IPv6 alike.
C34_FastConnectIffLocalOrPrivate ==
    call.op = "connect_dispatch" =>
        (call.primitive = "fast_connect"
            <=> call.network_type \in {"LocalHost", "PrivateLAN"})

\* C35: on a cache with max_entries >= 1, right after cache_result(host,
\* port, status, service, scan_type) returns, get_cached_result(host, port,
\* scan_type) returns a result, the one just written: the cleanup at
\* capacity never evicts the host entry just written, also when other hosts
\* carry the same last_full_scan second.
C35_JustCachedIsReturned ==
    [][(/\ MaxEntries >= 1
        /\ cacheOps' = cacheOps + 1
        /\ lastCall'.op = "cache_result")
       => /\ HostKey(lastCall'.target) \notin lastCall'.evicted
          /\ GetCachedResult(cache', lastCall'.target, lastCall'.port,
                             lastCall'.scan_type, now') \in
                {Some(r) : r \in CallResults}]_vars

\* The observations of a port in the scans learnt from, in order: TRUE for
\* a scan that found it open, FALSE for one that found it not open.
RECURSIVE ObservationsOf(_, _)
ObservationsOf(p, history) ==
    IF history = <<>> THEN <<>>
    ELSE LET of_p == {r \in Head(history) : r.port = p}
         IN (IF of_p = {} THEN <<>>
             ELSE <<(CHOOSE r \in of_p : TRUE).is_open>>)
                \o ObservationsOf(p, Tail(history))

\* The entry a port starts from: its baseline, or the one created on its
\* first observation.
FirstEntry(p) ==
    IF p \in DOMAIN DefaultStore.port_intelligence
    THEN DefaultStore.port_intelligence[p]
    ELSE [found_count |-> 0, success_rate |-> 500]

\* The running mean of the observations in thousandths: each observation
\* moves the rate by alpha = 1 / (found_count + 1) towards 1 when the port
\* was open and towards 0 when it was not.
RECURSIVE RunningMean(_, _, _)
RunningMean(rate, found, observations) ==
    IF observations = <<>> THEN rate
    ELSE LET now_found == found + (IF Head(observations) THEN 1 ELSE 0)
             x == IF Head(observations) THEN 1000 ELSE 0
         IN RunningMean((rate * now_found + x) \div (now_found + 1),
                        now_found, Tail(observations))

\* C36: after any sequence of learn calls the success_rate of every port
\* observed lies in [0, 1] and is the running mean, with
\* alpha = 1 / (found_count + 1), of the port's observations, 1 for a scan
\* that found it open and 0 for a scan that found it not open; found_count
\* counts the scans in which the port was open.
C36_SuccessRateIsRunningMean ==
    call.op = "port_learning" =>
        \A p \in {22, 8080} :
            LET observations == ObservationsOf(p, call.history)
                opens == Cardinality({i \in DOMAIN observations :
                                         observations[i]})
                intel == call.store.port_intelligence
            IN observations # <<>> =>
                  /\ intel[p].success_rate >= 0
                  /\ intel[p].success_rate <= 1000
                  /\ intel[p].found_count = FirstEntry(p).found_count + opens
                  /\ intel[p].success_rate =
                        RunningMean(FirstEntry(p).success_rate,
                                    FirstEntry(p).found_count, observations)

\* The open observations of the ports of a set, summed.
RECURSIVE ObservedIn(_)
ObservedIn(ports) ==
    IF ports = {} THEN 0
    ELSE LET p == CHOOSE x \in ports : TRUE
         IN call.observed[p] + ObservedIn(ports \ {p})

\* C37: after any sequence of learn calls most_common_ports holds at most
\* 50 entries, lists no port twice, is sorted by descending count, and the
\* count of each listed port is the number of times the port was observed
\* open over all the calls; total_scans is the number of learn calls and
\* total_ports_found the number of open observations.
C37_MostCommonPortsCumulative ==
    call.op = "global_stats" =>
        LET list == call.stats.most_common_ports
        IN /\ Len(list) <= CommonPortsLimit
           /\ \A i, j \in DOMAIN list : list[i][1] = list[j][1] => i = j
           /\ \A i, j \in DOMAIN list : i < j => list[i][2] >= list[j][2]
           /\ \A i \in DOMAIN list : list[i][2] = call.observed[list[i][1]]
           /\ call.stats.total_scans = call.fill_scans + call.free_scans
           /\ call.stats.total_ports_found
                 = ObservedIn(DOMAIN call.observed)

\* C38: in the authentication challenge a response is classified
\* ServiceIdentified, with auth_status AuthRequired(protocol) and the
\* confidence raised, only if it matches one of the probe's authentication
\* failure signatures; a response that matches a mismatch indicator and no
\* signature is ProtocolMismatch and leaves the fingerprint as it was, and
\* one that indicates success without authentication is Bypass with
\* auth_status AuthBypass.
C38_IdentifiedOnlyBySignature ==
    (call.op = "test_authentication" /\ call.read # None) =>
        LET auth_probe == AuthProbes[call.protocol]
            response_str == ToLowercase(call.read[1])
            signature == MatchesAny(response_str, auth_probe.service_indicators)
            mismatch == MatchesAny(response_str, auth_probe.malformed_indicators)
        IN /\ (\/ call.response_type = Some("ServiceIdentified")
               \/ call.auth_status.kind = "AuthRequired")
                 => signature
           /\ (mismatch /\ ~signature)
                 => /\ call.response_type = Some("ProtocolMismatch")
                    /\ call.fingerprint.confidence = call.confidence_before
                    /\ call.auth_status.kind = "Unknown"
           /\ call.response_type = Some("Bypass")
                 => call.auth_status.kind = "AuthBypass"

\* C39: classify_response returns the same service and confidence for the
\* same response bytes, whatever the order in which the pattern map yields
\* its protocols and whatever was classified before: the result is the one
\* a classifier whose map iterates in insertion order gives on its first
\* classification.
C39_ClassificationDeterministic ==
    call.op = "classify_response" =>
        call.result = ClassifyResponse(call.response, InsertionOrder)

=============================================================================
